---- MODULE Spec2Model ----
(***************************************************************************)
(* Model of the task scheduling and event distribution engine of           *)
(* ai-agent-dashboard (server/app): the Celery worker tasks, the shared     *)
(* Redis keyspace they use, the administrative controls, the agent load     *)
(* bookkeeping, the Redis event bus and the SSE fan-out connection.         *)
(*                                                                         *)
(* Time is counted in whole hours (clock).  Rates are counted in tenths    *)
(* (a rate of 1.0 is 10).                                                  *)
(***************************************************************************)
EXTENDS Integers, Sequences, FiniteSets, TLC

(***************************************************************************)
(* Bounds of the model                                                     *)
(***************************************************************************)
NumTasks == 2
MaxSteps == 5
MaxClock == 3
MaxCalls == 3
NumAgents == 2
NumCallers == 2
MaxCompleted == 2
NumPublishers == 2
MaxPublished == 12
MaxArrived == 1003
MaxDelivered == 2
BurstSize == 1000
MaxFed == 25
MaxStatusFed == 4
MaxAlertFed == 3
MaxProduced == 4
MaxFaultPublished == 4
MaxDlqEntries == 3
MaxDlqNow == 48
MaxBatchTasks == 3
MaxStreamPublished == 2
MaxWsPublished == 2
MaxMessagesReceived == 2
MaxFallbackFed == 4
MaxLoad == 2
MaxBatchNow == 4
MaxAggNow == 6
BurstLen == 5
ScenarioEvents == 25

(***************************************************************************)
(* Program constants                                                       *)
(***************************************************************************)
max_retries == 3
RetryCountdown == 60
MinSteps == 5
ActiveTtlHours == 2
StaleHours == 2
RetentionHours == 24
PauseTtlHours == 1
MinRate == 1
MaxRate == 20
DefaultMaxConcurrentTasks == 1
DefaultResponseTimeMs == 1000
ResponseTimeScale == 10000
MsPerSecond == 1000
HeartbeatBufferSize == 10
QueueMaxSize == 1000
MinQueueCapacity == 100
DefaultBufferSize == 50
DefaultThrottleRate == 10
max_age_hours == 24
DayHours == 24
PermanentRetentionHours == 168
MaxDlqRetryCount == 3
PermanentRetryCount == 5
RequeuePriority == 2
UrgentQueuePriority == 10
HighQueuePriority == 7
NormalQueuePriority == 5
batch_size == 5
batch_timeout == 2
ImmediatePriority == 8
DefaultEventPriority == 5

Tasks == 1..NumTasks
StepCounts == MinSteps..MaxSteps
Agents == 1..NumAgents
Callers == 1..NumCallers
Publishers == 1..NumPublishers

\* Rates a caller may ask for, in tenths: 0.0, 0.1, 1.0, 2.0, 2.1, 3.0
Rates == {0, MinRate, 10, MaxRate, MaxRate + 1, 30}

\* processing_time_seconds a completion may report; 0 is "not known"
ProcessingTimes == {0, 2}

\* buffer_size values a client may ask for
ReplaySizes == {0, DefaultBufferSize}

\* Number of events published on the channel before a client connects
PublishedBefore == {0, 2, DefaultBufferSize}

\* Clients of the event stream, the channels they may ask for, the priorities
\* of the events (LOW and HIGH) and the replay sizes they may ask for
ConnectionIds == {"c1", "c2"}
StreamChannels == {"agents", "tasks"}
StreamPriorities == {1, 3}
StreamReplaySizes == {0, 1, 2}

\* Channels the model publishes on
BusChannels == {"heartbeat"}

VARIABLES
    \* ---- Celery worker and the shared Redis keyspace (celery_worker/tasks.py)
    pc,               \* position of each task in its life
    start_time,       \* start_time of the running attempt
    total_steps,      \* total_steps of the running attempt
    step,             \* loop variable of the running attempt
    retries,          \* self.request.retries
    attempts,         \* number of times process_agent_task was entered
    active_tasks,     \* active_tasks:<id> hash
    completed_tasks,  \* completed_tasks:<id> hash
    task_failures,    \* task_failures:<id> hash
    archived,         \* archived_completed_tasks:<id> / archived_task_failures:<id>
    dead_letter_queue,\* dead_letter_queue sorted set
    system_paused,    \* system_paused key
    terminal_events,  \* task_completed / task_failed events published per task
    retry_events,     \* task_retry events published per task
    clock,            \* current time, in hours
    progress,         \* 'current' of the last PROGRESS state / task_progress event
    throttle_rate,    \* the rate the task's last step read, in tenths
    cleanup_stats,    \* the newest entry of cleanup_history
    countdown,        \* countdown of the task's last retry message, in seconds
    \* ---- Administrative throttle (celery_worker/tasks.py, api/system.py)
    system_throttle_rate, \* key system_throttle_rate, in tenths; NoRate when absent
    system_throttle,      \* key system:throttle, in tenths; NoRate when absent
    response,             \* what the last administrative call returned
    calls,                \* administrative calls made so far
    \* ---- Agent load bookkeeping (services/agent_service.py, models/agent.py)
    current_task_count,
    current_status,
    total_tasks_completed,
    total_processing_time_seconds,
    average_response_time_ms, \* [num, den]: the value num/den; num = 0 is None
    chosen,               \* the agent each caller got from get_best_agent_for_task
    \* ---- Redis event bus (services/redis_pubsub.py)
    publisher_pc,         \* position of each publisher inside publish_event
    publisher_event,      \* the event each publisher is publishing
    publisher_channel,    \* and its channel
    buffer,               \* buffer:<channel> lists, newest first
    next_event_id,        \* events created so far
    publish_result,       \* by publisher: what its last publish_event call returned
    \* ---- SSE connection (api/stream.py)
    connected,            \* stream_events has built the connection
    buffer_size,          \* the buffer_size query parameter
    max_queue_size,       \* SSEConnection.max_queue_size
    queue_maxsize,        \* maxsize of the asyncio.Queue in event_queue
    event_queue,          \* SSEConnection.event_queue, oldest first
    subscribed_at,        \* events published on the channel before the connection
    arrived,              \* events published on the channel so far that pass the filters
    delivered,            \* events the generator has yielded to the client, in order
    \* ---- Event aggregator (services/event_aggregator.py)
    agg_now,              \* datetime.utcnow(), in seconds
    fed,                  \* events given to process_event so far
    first_fed_at,         \* time of the first process_event call
    last_fed_at,          \* time of the last process_event call
    running,              \* EventAggregator._running
    batches,              \* EventAggregator.batches, by event type
    seen_events,          \* EventDeduplicator.seen_events, by dedup key
    priority_queue,       \* EventAggregator.priority_queue
    outputs,              \* events handed to the output handlers, in order
    call_outputs,         \* how many of them the last process_event call emitted
    newest_received,      \* by dedup key: id of the newest event received since the
                          \* last flush, 0 if there was none
    accepted,             \* ids of the events received and not dropped as duplicates
    flush_errors,         \* number of "Error flushing batch" lines in the log
    \* the worker's EventBatcher (celery_worker/events.py)
    batch_now,            \* time.time(), in seconds
    pending_events,       \* by event type: the events waiting in the batch
    last_flush,           \* by event type: when the type was last flushed
    produced,             \* number of events the worker produced for its task
    task_over,            \* the worker produced the terminal event of the task
    ai_dashboard_events,  \* the events published to the bus, oldest first
    returned_true,        \* ids of the events for which publish_event returned True
    publish_failed,       \* ids of the events whose Redis publish raised
    \* DeadLetterQueueHandler (celery_worker/monitoring.py)
    dlq_now,              \* time.time(), in hours
    dlq_added,            \* number of add_to_dlq calls so far
    dlq_entries,          \* the members of the sorted set dead_letter_queue
    requeued,             \* the process_agent_task messages sent by _requeue_task
    permanent_failures,   \* the permanent_failures:<task_id> hashes
    \* the scheduling loop of task_orchestrator (celery_worker/tasks.py)
    orchestration_request,  \* priority and number of tasks of the last request
    scheduled_tasks,        \* per task of the last request, in order: the queue and
                            \* priority of its message, the agent selected and the
                            \* loads the selection saw
    \* ---- the SSE connections of the server (api/stream.py)
    active_connections,   \* keys of the registry active_connections
    connections,          \* by connection id: the SSEConnection, its listener task,
                          \* its generator and what the client has been sent
    channel_buffer,       \* by channel: the list buffer:<channel>, newest first
    sse_shutdown,         \* cleanup_sse_connections has run
    \* ---- the filters of the connections (api/stream.py, api/websocket.py)
    last_handled,         \* the last event a connection handled, its filters and
                          \* whether it was queued or sent
    \* ---- the WebSocket connections of the server (api/websocket.py)
    active_websocket_connections,  \* keys of the registry
    websocket_connections,  \* by connection id: the WebSocketConnection, the handlers
                            \* of its subscriber, its listener task and what the
                            \* client has been sent
    ws_published            \* the channels of the events published so far, in order

worker_vars == <<pc, start_time, total_steps, step, retries, attempts, active_tasks,
                 completed_tasks, task_failures, archived, dead_letter_queue,
                 system_paused, terminal_events, retry_events, clock, progress,
                 throttle_rate, cleanup_stats, countdown>>

control_vars == <<system_throttle_rate, system_throttle, response, calls>>

agent_vars == <<current_task_count, current_status, total_tasks_completed,
                total_processing_time_seconds, average_response_time_ms, chosen>>

bus_vars == <<publisher_pc, publisher_event, publisher_channel, buffer, next_event_id,
              publish_result>>

stream_vars == <<connected, buffer_size, max_queue_size, queue_maxsize, event_queue,
                 subscribed_at, arrived, delivered>>

aggregator_vars == <<agg_now, fed, first_fed_at, last_fed_at, running, batches, seen_events, priority_queue,
                     outputs, call_outputs, newest_received, accepted, flush_errors>>

batcher_vars == <<batch_now, pending_events, last_flush, produced, task_over, ai_dashboard_events,
                  returned_true, publish_failed>>

dlq_vars == <<dlq_now, dlq_added, dlq_entries, requeued, permanent_failures>>

orch_vars == <<orchestration_request, scheduled_tasks>>

registry_vars == <<active_connections, connections, channel_buffer, sse_shutdown>>

filter_vars == <<last_handled>>

ws_vars == <<active_websocket_connections, websocket_connections, ws_published>>

base_vars == <<worker_vars, control_vars, agent_vars, bus_vars, stream_vars, aggregator_vars,
               batcher_vars>>

vars == <<worker_vars, control_vars, agent_vars, bus_vars, stream_vars, aggregator_vars, batcher_vars, dlq_vars, orch_vars, registry_vars, filter_vars, ws_vars>>

(***************************************************************************)
(* Task dependencies (models/task.py).  Task 2 depends on task 1.          *)
(***************************************************************************)
dependencies == [t \in Tasks |-> IF t = 2 THEN {1} ELSE {}]

NoKey == [present |-> FALSE, started_at |-> 0, has_ttl |-> FALSE, expire_at |-> 0]
NoRecord == [present |-> FALSE, at |-> 0, retry_count |-> 0, cleanup |-> FALSE,
             expire_at |-> 0]
NoFlag == [set |-> FALSE, expire_at |-> 0]

\* A key of the store is visible while it is present and its TTL has not run out.
KeyAlive(k) == k.present /\ (k.has_ttl => clock < k.expire_at)

\* The same for the records that are always written together with their TTL.
RecordAlive(r) == r.present /\ clock < r.expire_at

Paused == system_paused.set /\ clock < system_paused.expire_at

\* TaskStatus of a task as the store shows it.
status(t) ==
    IF pc[t] = "succeeded" THEN "completed"
    ELSE IF pc[t] = "failed" THEN "failed"
    ELSE IF pc[t] \in {"init", "stored", "running"} THEN "running"
    ELSE IF pc[t] = "queued" THEN "assigned"
    ELSE "pending"

\* Task.can_start
can_start(t) ==
    IF dependencies[t] = {} THEN TRUE
    ELSE \A dep \in dependencies[t] : status(dep) = "completed"

WorkerInit ==
    /\ pc = [t \in Tasks |-> "submitted"]
    /\ start_time = [t \in Tasks |-> 0]
    /\ total_steps = [t \in Tasks |-> 0]
    /\ step = [t \in Tasks |-> 0]
    /\ retries = [t \in Tasks |-> 0]
    /\ attempts = [t \in Tasks |-> 0]
    /\ active_tasks = [t \in Tasks |-> NoKey]
    /\ completed_tasks = [t \in Tasks |-> NoRecord]
    /\ task_failures = [t \in Tasks |-> NoRecord]
    /\ archived = [t \in Tasks |-> {}]
    /\ dead_letter_queue = {}
    /\ system_paused = NoFlag
    /\ terminal_events = [t \in Tasks |-> 0]
    /\ retry_events = [t \in Tasks |-> 0]
    /\ clock = 0
    /\ progress = [t \in Tasks |-> 0]
    /\ throttle_rate = [t \in Tasks |-> DefaultThrottleRate]
    /\ cleanup_stats = [present |-> FALSE, timestamp |-> 0, stale_tasks_cleaned |-> 0]
    /\ countdown = [t \in Tasks |-> 0]

NoRate == [present |-> FALSE, value |-> 0]
NoResponse == [iface |-> "none", rate |-> 0, status |-> "none"]

ControlInit ==
    /\ system_throttle_rate = NoRate
    /\ system_throttle = NoRate
    /\ response = NoResponse
    /\ calls = 0

\* Agent.max_concurrent_tasks: the column default for agent 1, two for the others.
max_concurrent_tasks ==
    [a \in Agents |-> IF a = 1 THEN DefaultMaxConcurrentTasks
                                ELSE DefaultMaxConcurrentTasks + 1]

AgentInit ==
    /\ current_task_count = [a \in Agents |-> 0]
    /\ current_status = [a \in Agents |-> "idle"]
    /\ total_tasks_completed = [a \in Agents |-> 0]
    /\ total_processing_time_seconds = [a \in Agents |-> 0]
    /\ average_response_time_ms = [a \in Agents |-> [num |-> 0, den |-> 1]]
    /\ chosen = [c \in Callers |-> 0]

BusInit ==
    /\ publisher_pc = [p \in Publishers |-> "idle"]
    /\ publisher_event = [p \in Publishers |-> 0]
    /\ publisher_channel = [p \in Publishers |-> "heartbeat"]
    /\ buffer = [ch \in BusChannels |-> <<>>]
    /\ next_event_id = 0
    /\ publish_result = [p \in Publishers |-> "none"]

StreamInit ==
    /\ connected = FALSE
    /\ buffer_size = 0
    /\ max_queue_size = 0
    /\ queue_maxsize = 0
    /\ event_queue = <<>>
    /\ subscribed_at = 0
    /\ arrived = 0
    /\ delivered = <<>>

\* EventBatch without events: no batch is pending for the type.
NoBatch == [events |-> <<>>, created_at |-> 0, last_updated |-> 0]

\* Event types the model feeds to the aggregator
AggTypes == {"metrics_data", "agent_status", "system_alert"}

\* Dedup keys of the model: the agent_id of an agent_status event
DedupKeys == {"a1", "a2"}

\* EventAggregator.__init__, then start_periodic_flush
AggregatorInit ==
    /\ agg_now = 0
    /\ fed = 0
    /\ first_fed_at = 0
    /\ last_fed_at = 0
    /\ running = TRUE
    /\ batches = [ty \in AggTypes |-> NoBatch]
    /\ seen_events = [k \in DedupKeys |-> [present |-> FALSE, at |-> 0]]
    /\ priority_queue = <<>>
    /\ outputs = <<>>
    /\ call_outputs = 0
    /\ newest_received = [k \in DedupKeys |-> 0]
    /\ accepted = {}
    /\ flush_errors = 0

\* The event types of one task's events.
TaskEventTypes == {"task_progress", "task_completed"}

\* EventBatcher.__init__: nothing is pending and last_flush is 0.0 for every
\* type, which the clock left behind long ago.
BatcherInit ==
    /\ batch_now = 0
    /\ pending_events = [ty \in TaskEventTypes |-> <<>>]
    /\ last_flush = [ty \in TaskEventTypes |-> [ever |-> FALSE, at |-> 0]]
    /\ produced = 0
    /\ task_over = FALSE
    /\ ai_dashboard_events = <<>>
    /\ returned_true = {}
    /\ publish_failed = {}

\* No orchestration request so far.
OrchestrationInit ==
    /\ orchestration_request = [priority |-> "none", count |-> 0]
    /\ scheduled_tasks = <<>>

\* An empty dead letter queue.
DlqInit ==
    /\ dlq_now = 0
    /\ dlq_added = 0
    /\ dlq_entries = {}
    /\ requeued = {}
    /\ permanent_failures = {}

\* An SSEConnection that no request has built yet.
NoConnection ==
    [state |-> "none", subscribed_channels |-> {}, pubsub |-> "none", min_priority |-> 1,
     listener_task |-> "none", generator |-> "none", client_gone |-> FALSE,
     event_queue |-> <<>>, replayed |-> <<>>, sent |-> <<>>]

RegistryInit ==
    /\ active_connections = {}
    /\ connections = [c \in ConnectionIds |-> NoConnection]
    /\ channel_buffer = [ch \in StreamChannels |-> <<>>]
    /\ sse_shutdown = FALSE

FilterInit == last_handled = [iface |-> "none"]

\* A WebSocketConnection that no request has built yet.  handlers counts, by
\* channel, the entries of subscriber.subscriptions[channel]; pubsub is the
\* set of channels the pubsub of the subscriber is subscribed to.
NoWebSocket ==
    [state |-> "none", subscribed_channels |-> {}, pubsub |-> {},
     handlers |-> [ch \in StreamChannels |-> 0], min_priority |-> 1, is_active |-> FALSE,
     listener_task |-> "none", messages_received |-> 0, errors_count |-> 0, sent |-> <<>>]

WebSocketInit ==
    /\ active_websocket_connections = {}
    /\ websocket_connections = [c \in ConnectionIds |-> NoWebSocket]
    /\ ws_published = <<>>

Init ==
    /\ WorkerInit /\ ControlInit /\ AgentInit /\ BusInit /\ StreamInit /\ AggregatorInit
    /\ BatcherInit /\ DlqInit /\ OrchestrationInit /\ RegistryInit
    /\ FilterInit /\ WebSocketInit

\* task_orchestrator: every task of the request is queued with apply_async.
task_orchestrator(batch) ==
    /\ batch # {}
    /\ \A t \in batch : pc[t] = "submitted"
    /\ pc' = [t \in Tasks |-> IF t \in batch THEN "queued" ELSE pc[t]]
    /\ UNCHANGED <<start_time, total_steps, step, retries, attempts, active_tasks,
                   completed_tasks, task_failures, archived, dead_letter_queue, system_paused,
                   terminal_events, retry_events, clock>>
    /\ UNCHANGED <<progress, throttle_rate, cleanup_stats, countdown>>
    /\ UNCHANGED <<control_vars, agent_vars, bus_vars, stream_vars, aggregator_vars, batcher_vars, dlq_vars, orch_vars, registry_vars, filter_vars, ws_vars>>

\* process_agent_task, entry: start_time is taken and the state set to PROGRESS
\* with 'current': 0.
process_agent_task_start(t) ==
    /\ pc[t] = "queued"
    /\ pc' = [pc EXCEPT ![t] = "init"]
    /\ start_time' = [start_time EXCEPT ![t] = clock]
    /\ attempts' = [attempts EXCEPT ![t] = @ + 1]
    /\ progress' = [progress EXCEPT ![t] = 0]
    /\ UNCHANGED <<throttle_rate, cleanup_stats, countdown>>
    /\ UNCHANGED <<total_steps, step, retries, active_tasks, completed_tasks,
                   task_failures, archived, dead_letter_queue, system_paused, terminal_events,
                   retry_events, clock>>
    /\ UNCHANGED <<control_vars, agent_vars, bus_vars, stream_vars, aggregator_vars, batcher_vars, dlq_vars, orch_vars, registry_vars, filter_vars, ws_vars>>

\* process_agent_task: redis_client.hset(active_tasks:<id>, ...).  HSET creates
\* the key, or overwrites the fields of a key that is still there and keeps its TTL.
process_agent_task_store(t) ==
    /\ pc[t] = "init"
    /\ pc' = [pc EXCEPT ![t] = "stored"]
    /\ active_tasks' = [active_tasks EXCEPT ![t] =
           IF KeyAlive(@)
           THEN [@ EXCEPT !.started_at = start_time[t]]
           ELSE [present |-> TRUE, started_at |-> start_time[t],
                 has_ttl |-> FALSE, expire_at |-> 0]]
    /\ UNCHANGED <<start_time, total_steps, step, retries, attempts, completed_tasks,
                   task_failures, archived, dead_letter_queue, system_paused, terminal_events,
                   retry_events, clock>>
    /\ UNCHANGED <<progress, throttle_rate, cleanup_stats, countdown>>
    /\ UNCHANGED <<control_vars, agent_vars, bus_vars, stream_vars, aggregator_vars, batcher_vars, dlq_vars, orch_vars, registry_vars, filter_vars, ws_vars>>

\* process_agent_task: redis_client.expire(active_tasks:<id>, 7200), then
\* total_steps = simulator.calculate_steps(complexity).
process_agent_task_expire(t, n) ==
    /\ pc[t] = "stored"
    /\ pc' = [pc EXCEPT ![t] = "running"]
    /\ active_tasks' = [active_tasks EXCEPT ![t] =
           IF KeyAlive(@)
           THEN [@ EXCEPT !.has_ttl = TRUE, !.expire_at = clock + ActiveTtlHours]
           ELSE NoKey]
    /\ total_steps' = [total_steps EXCEPT ![t] = n]
    /\ step' = [step EXCEPT ![t] = 0]
    /\ UNCHANGED <<start_time, retries, attempts, completed_tasks, task_failures,
                   archived, dead_letter_queue, system_paused, terminal_events, retry_events,
                   clock>>
    /\ UNCHANGED <<progress, throttle_rate, cleanup_stats, countdown>>
    /\ UNCHANGED <<control_vars, agent_vars, bus_vars, stream_vars, aggregator_vars, batcher_vars, dlq_vars, orch_vars, registry_vars, filter_vars, ws_vars>>

\* A retry policy that gives up two failures too late.
ShouldRetry_Late(t) == retries[t] < max_retries + 2

\* Celery autoretry_for=(Exception,), retry_kwargs max_retries: the attempt is
\* retried while self.request.retries is below max_retries.
ShouldRetry(t) == retries[t] < max_retries

\* retry_kwargs countdown: the retry message of the attempt is delayed by the
\* same countdown whatever the number of retries made so far (there is no
\* retry_backoff).
retry_countdown(request_retries) == RetryCountdown

\* A progress computation that counts the steps still to do.
progress_percent_Remaining(s, total) == ((total - s) * 100) \div total

\* process_agent_task: progress = int((step + 1) / total_steps * 100).  For the
\* step counts of the model the float quotient truncates to the integer quotient.
progress_percent(s, total) == ((s + 1) * 100) \div total

\* process_agent_task, one pass of the step loop that ends normally: the
\* PROGRESS state is updated and a task_progress event published.
process_agent_task_step(t) ==
    /\ pc[t] = "running"
    /\ step[t] < total_steps[t]
    /\ step' = [step EXCEPT ![t] = @ + 1]
    /\ progress' = [progress EXCEPT ![t] = progress_percent(step[t], total_steps[t])]
    /\ UNCHANGED <<cleanup_stats, countdown>>
    /\ throttle_rate' = [throttle_rate EXCEPT ![t] =
                            IF system_throttle_rate.present THEN system_throttle_rate.value
                            ELSE DefaultThrottleRate]
    /\ UNCHANGED <<pc, start_time, total_steps, retries, attempts, active_tasks,
                   completed_tasks, task_failures, archived, dead_letter_queue, system_paused,
                   terminal_events, retry_events, clock>>
    /\ UNCHANGED <<control_vars, agent_vars, bus_vars, stream_vars, aggregator_vars, batcher_vars, dlq_vars, orch_vars, registry_vars, filter_vars, ws_vars>>

\* process_agent_task, a step with should_fail: the except clause deletes the
\* active record and re-raises; Celery then either retries (CallbackTask.on_retry)
\* or gives up (CallbackTask.on_failure).  The locals of the attempt are gone.
\* and the RETRY or FAILURE state replaces the PROGRESS meta.
process_agent_task_fail(t) ==
    /\ pc[t] = "running"
    /\ step[t] < total_steps[t]
    /\ active_tasks' = [active_tasks EXCEPT ![t] = NoKey]
    /\ IF ShouldRetry(t)
       THEN /\ retries' = [retries EXCEPT ![t] = @ + 1]
            /\ retry_events' = [retry_events EXCEPT ![t] = @ + 1]
            /\ pc' = [pc EXCEPT ![t] = "queued"]
            /\ countdown' = [countdown EXCEPT ![t] = retry_countdown(retries[t])]
            /\ UNCHANGED <<task_failures, terminal_events>>
       ELSE /\ terminal_events' = [terminal_events EXCEPT ![t] = @ + 1]
            /\ task_failures' = [task_failures EXCEPT ![t] =
                   [present |-> TRUE, at |-> clock, retry_count |-> retries[t],
                    cleanup |-> FALSE, expire_at |-> clock + RetentionHours]]
            /\ pc' = [pc EXCEPT ![t] = "failed"]
            /\ UNCHANGED <<retries, retry_events, countdown>>
    /\ start_time' = [start_time EXCEPT ![t] = 0]
    /\ total_steps' = [total_steps EXCEPT ![t] = 0]
    /\ step' = [step EXCEPT ![t] = 0]
    /\ UNCHANGED <<attempts, completed_tasks, archived, dead_letter_queue,
                   system_paused, clock>>
    /\ progress' = [progress EXCEPT ![t] = 0]
    /\ UNCHANGED <<throttle_rate, cleanup_stats>>
    /\ UNCHANGED <<control_vars, agent_vars, bus_vars, stream_vars, aggregator_vars, batcher_vars, dlq_vars, orch_vars, registry_vars, filter_vars, ws_vars>>

\* process_agent_task, after the loop: the completion record is written, the
\* active record deleted, and CallbackTask.on_success publishes task_completed.
process_agent_task_finish(t) ==
    /\ pc[t] = "running"
    /\ step[t] = total_steps[t]
    /\ completed_tasks' = [completed_tasks EXCEPT ![t] =
           [present |-> TRUE, at |-> clock, retry_count |-> 0, cleanup |-> FALSE,
            expire_at |-> clock + RetentionHours]]
    /\ active_tasks' = [active_tasks EXCEPT ![t] = NoKey]
    /\ terminal_events' = [terminal_events EXCEPT ![t] = @ + 1]
    /\ pc' = [pc EXCEPT ![t] = "succeeded"]
    /\ start_time' = [start_time EXCEPT ![t] = 0]
    /\ total_steps' = [total_steps EXCEPT ![t] = 0]
    /\ step' = [step EXCEPT ![t] = 0]
    /\ UNCHANGED <<retries, attempts, task_failures, archived, dead_letter_queue,
                   system_paused, retry_events, clock>>
    /\ UNCHANGED <<progress, throttle_rate, cleanup_stats, countdown>>
    /\ UNCHANGED <<control_vars, agent_vars, bus_vars, stream_vars, aggregator_vars, batcher_vars, dlq_vars, orch_vars, registry_vars, filter_vars, ws_vars>>

\* broadcast_pause_all: redis_client.set('system_paused', 'true', ex=3600)
broadcast_pause_all ==
    /\ system_paused' = [set |-> TRUE, expire_at |-> clock + PauseTtlHours]
    /\ UNCHANGED <<pc, start_time, total_steps, step, retries, attempts, active_tasks,
                   completed_tasks, task_failures, archived, dead_letter_queue, terminal_events,
                   retry_events, clock>>
    /\ UNCHANGED <<progress, throttle_rate, cleanup_stats, countdown>>
    /\ UNCHANGED <<control_vars, agent_vars, bus_vars, stream_vars, aggregator_vars, batcher_vars, dlq_vars, orch_vars, registry_vars, filter_vars, ws_vars>>

\* broadcast_resume_all: redis_client.delete('system_paused')
broadcast_resume_all ==
    /\ system_paused' = NoFlag
    /\ UNCHANGED <<pc, start_time, total_steps, step, retries, attempts, active_tasks,
                   completed_tasks, task_failures, archived, dead_letter_queue, terminal_events,
                   retry_events, clock>>
    /\ UNCHANGED <<progress, throttle_rate, cleanup_stats, countdown>>
    /\ UNCHANGED <<control_vars, agent_vars, bus_vars, stream_vars, aggregator_vars, batcher_vars, dlq_vars, orch_vars, registry_vars, filter_vars, ws_vars>>

\* Time passes.
Tick ==
    /\ clock < MaxClock
    /\ clock' = clock + 1
    /\ UNCHANGED <<pc, start_time, total_steps, step, retries, attempts, active_tasks,
                   completed_tasks, task_failures, archived, dead_letter_queue,
                   system_paused, terminal_events, retry_events>>
    /\ UNCHANGED <<progress, throttle_rate, cleanup_stats, countdown>>
    /\ UNCHANGED <<control_vars, agent_vars, bus_vars, stream_vars, aggregator_vars, batcher_vars, dlq_vars, orch_vars, registry_vars, filter_vars, ws_vars>>

\* The worker process running the task dies ("likely dead workers" of
\* cleanup_completed): the attempt stops where it is and no callback runs.
worker_lost(t) ==
    /\ pc[t] \in {"init", "stored", "running"}
    /\ pc' = [pc EXCEPT ![t] = "lost"]
    /\ start_time' = [start_time EXCEPT ![t] = 0]
    /\ total_steps' = [total_steps EXCEPT ![t] = 0]
    /\ step' = [step EXCEPT ![t] = 0]
    /\ UNCHANGED <<retries, attempts, active_tasks,
                   completed_tasks, task_failures, archived, dead_letter_queue,
                   system_paused, terminal_events, retry_events, clock>>
    /\ UNCHANGED <<progress, throttle_rate, cleanup_stats, countdown>>
    /\ UNCHANGED <<control_vars, agent_vars, bus_vars, stream_vars, aggregator_vars, batcher_vars, dlq_vars, orch_vars, registry_vars, filter_vars, ws_vars>>

\* cleanup_completed: which records the sweep finds old enough.
OldCompleted(t) ==
    RecordAlive(completed_tasks[t]) /\ completed_tasks[t].at + RetentionHours < clock
OldFailed(t) ==
    RecordAlive(task_failures[t]) /\ task_failures[t].at + RetentionHours < clock
\* A sweep that takes an active record for stale only after the retention time.
StaleActive_Retention(t) ==
    KeyAlive(active_tasks[t]) /\ active_tasks[t].started_at + RetentionHours < clock
StaleActive(t) ==
    KeyAlive(active_tasks[t]) /\ active_tasks[t].started_at + StaleHours < clock

\* cleanup_completed: completed and failed records older than 24 h are moved to
\* archived_*, active records older than 2 h are moved to task_failures with
\* cleanup_reason stale_task_cleanup, and one cleanup_completed event is published.
\* The failure records are read before the stale pass writes new ones.
cleanup_completed ==
    /\ archived' = [t \in Tasks |->
           archived[t] \cup (IF OldCompleted(t) THEN {"completed"} ELSE {})
                       \cup (IF OldFailed(t) THEN {"failed"} ELSE {})]
    /\ completed_tasks' = [t \in Tasks |->
           IF OldCompleted(t) THEN NoRecord ELSE completed_tasks[t]]
    /\ task_failures' = [t \in Tasks |->
           IF StaleActive(t)
           THEN [present |-> TRUE, at |-> clock, retry_count |-> 0, cleanup |-> TRUE,
                 expire_at |-> clock + RetentionHours]
           ELSE IF OldFailed(t) THEN NoRecord ELSE task_failures[t]]
    /\ active_tasks' = [t \in Tasks |->
           IF StaleActive(t) THEN NoKey ELSE active_tasks[t]]
    /\ UNCHANGED <<pc, start_time, total_steps, step, retries, attempts,
                   dead_letter_queue, system_paused, terminal_events, retry_events,
                   clock>>
    /\ cleanup_stats' = [present |-> TRUE, timestamp |-> clock,
                         stale_tasks_cleaned |-> Cardinality({t \in Tasks : StaleActive(t)})]
    /\ UNCHANGED <<progress, throttle_rate, countdown>>
    /\ UNCHANGED <<control_vars, agent_vars, bus_vars, stream_vars, aggregator_vars, batcher_vars, dlq_vars, orch_vars, registry_vars, filter_vars, ws_vars>>

WorkerNext ==
    \/ \E batch \in SUBSET Tasks : task_orchestrator(batch)
    \/ \E t \in Tasks : process_agent_task_start(t)
    \/ \E t \in Tasks : process_agent_task_store(t)
    \/ \E t \in Tasks, n \in StepCounts : process_agent_task_expire(t, n)
    \/ \E t \in Tasks : process_agent_task_step(t)
    \/ \E t \in Tasks : process_agent_task_fail(t)
    \/ \E t \in Tasks : process_agent_task_finish(t)
    \/ broadcast_pause_all
    \/ broadcast_resume_all

SpecWorker == Init /\ [][WorkerNext]_vars

SweepNext ==
    \/ \E batch \in SUBSET Tasks : task_orchestrator(batch)
    \/ \E t \in Tasks : process_agent_task_start(t)
    \/ \E t \in Tasks : process_agent_task_store(t)
    \/ \E t \in Tasks, n \in StepCounts : process_agent_task_expire(t, n)
    \/ \E t \in Tasks : process_agent_task_step(t)
    \/ \E t \in Tasks : process_agent_task_fail(t)
    \/ \E t \in Tasks : process_agent_task_finish(t)
    \/ \E t \in Tasks : worker_lost(t)
    \/ Tick
    \/ cleanup_completed

SpecSweep == Init /\ [][SweepNext]_vars

(***************************************************************************)
(* Claims about the worker                                                 *)
(***************************************************************************)
\* A task performs its first step: process_agent_task is entered.
StartsRunning(t) == pc[t] = "queued" /\ pc'[t] = "init"

\* A running task begins a further step of its loop (one that ends normally or
\* one that fails).
BeginsStep(t) ==
    /\ pc[t] = "running"
    /\ step[t] < total_steps[t]
    /\ (step'[t] = step[t] + 1 \/ pc'[t] \in {"queued", "failed"})

\* The task is handed to the queue.
Enqueued(t) == pc[t] = "submitted" /\ pc'[t] = "queued"

\* C1: while the global pause flag system_paused is set, no task performs its
\* first step and no running task begins a further step.
C1_NoStepWhilePaused ==
    [][Paused => \A t \in Tasks : ~StartsRunning(t) /\ ~BeginsStep(t)]_vars

DlqTaskIds == {e.task_id : e \in dead_letter_queue}

\* C2: after max_retries + 1 failed attempts the task is given up, its id is in
\* the dead-letter queue and it has no active_tasks record.
C2_ExhaustedTaskInDLQ ==
    \A t \in Tasks :
        (pc[t] = "failed" /\ attempts[t] = max_retries + 1)
            => (t \in DlqTaskIds /\ ~KeyAlive(active_tasks[t]))

\* The task has reached a terminal state: it succeeded, it failed for good, or
\* its worker died and the sweep recorded it as failed.
Terminal(t) ==
    \/ pc[t] \in {"succeeded", "failed"}
    \/ (pc[t] = "lost" /\ RecordAlive(task_failures[t]) /\ task_failures[t].cleanup)

\* C3: a task that has reached a terminal state, whichever way, has exactly one
\* terminal event (task_completed or task_failed) published for it.
C3_ExactlyOneTerminalEvent ==
    \A t \in Tasks : Terminal(t) => terminal_events[t] = 1

\* C9: a task is enqueued, and starts running, only in a state where every task
\* of its dependency set is completed.
C9_StartOnlyWhenDependenciesCompleted ==
    [][\A t \in Tasks : (Enqueued(t) \/ StartsRunning(t)) => can_start(t)]_vars

\* C10: the retry count of a task never decreases and never exceeds
\* max_retries + 1, and a task is attempted at most max_retries + 1 times.
C10_RetryCountBounded ==
    [][\A t \in Tasks :
          /\ retries'[t] >= retries[t]
          /\ retries'[t] <= max_retries + 1
          /\ attempts'[t] <= max_retries + 1]_vars

\* A task that used up all its attempts.
C10_Witness ==
    \E t \in Tasks :
        pc[t] = "failed" /\ attempts[t] = max_retries + 1 /\ retries[t] = max_retries

(***************************************************************************)
(* Administrative throttle: the adjust_throttle command of the worker and  *)
(* the POST /system/throttle endpoint of the API.                          *)
(***************************************************************************)

\* adjust_throttle: "if not 0.1 <= rate <= 2.0: raise ValueError"
valid_rate(rate) == MinRate <= rate /\ rate <= MaxRate

\* adjust_throttle: a valid rate is stored under system_throttle_rate and the
\* result has status throttle_applied; an invalid one raises ValueError, which
\* the except clause turns into a result with an error and status throttle_failed.
adjust_throttle(rate) ==
    /\ calls < MaxCalls
    /\ calls' = calls + 1
    /\ IF valid_rate(rate)
       THEN /\ system_throttle_rate' = [present |-> TRUE, value |-> rate]
            /\ response' = [iface |-> "adjust_throttle", rate |-> rate,
                            status |-> "throttle_applied"]
       ELSE /\ response' = [iface |-> "adjust_throttle", rate |-> rate,
                            status |-> "throttle_failed"]
            /\ UNCHANGED system_throttle_rate
    /\ UNCHANGED system_throttle
    /\ UNCHANGED <<worker_vars, agent_vars, bus_vars, stream_vars, aggregator_vars, batcher_vars, dlq_vars, orch_vars, registry_vars, filter_vars, ws_vars>>

\* set_throttle (POST /system/throttle): redis.set("system:throttle", rate) and
\* a response with status throttled, whatever the rate.
set_throttle(rate) ==
    /\ calls < MaxCalls
    /\ calls' = calls + 1
    /\ system_throttle' = [present |-> TRUE, value |-> rate]
    /\ response' = [iface |-> "set_throttle", rate |-> rate, status |-> "throttled"]
    /\ UNCHANGED system_throttle_rate
    /\ UNCHANGED <<worker_vars, agent_vars, bus_vars, stream_vars, aggregator_vars, batcher_vars, dlq_vars, orch_vars, registry_vars, filter_vars, ws_vars>>

\* get_system_status (GET /system/status): the rate under system:throttle, or 1.0.
get_system_status ==
    /\ response' = [iface |-> "get_system_status",
                    rate |-> IF system_throttle.present THEN system_throttle.value
                             ELSE DefaultThrottleRate,
                    status |-> "operational"]
    /\ UNCHANGED <<system_throttle_rate, system_throttle, calls>>
    /\ UNCHANGED <<worker_vars, agent_vars, bus_vars, stream_vars, aggregator_vars, batcher_vars, dlq_vars, orch_vars, registry_vars, filter_vars, ws_vars>>

ControlNext ==
    \/ \E rate \in Rates : adjust_throttle(rate)
    \/ \E rate \in Rates : set_throttle(rate)
    \/ get_system_status

SpecControl == Init /\ [][ControlNext]_vars

\* The step is a call of one of the two throttle interfaces.
ThrottleCall == calls' = calls + 1

\* C7: a throttle call (POST /system/throttle or adjust_throttle) with a rate
\* outside [0.1, 2.0] returns a validation error and leaves the stored rate,
\* under either key, as it was.
C7_OutOfRangeThrottleRejected ==
    [][(ThrottleCall /\ ~valid_rate(response'.rate))
          => /\ response'.status \in {"throttle_failed", "validation_error"}
             /\ system_throttle_rate' = system_throttle_rate
             /\ system_throttle' = system_throttle]_vars

(***************************************************************************)
(* Agent load bookkeeping (AgentService).  Every method is one database    *)
(* transaction; callers run concurrently, so other callers' transactions   *)
(* may come between a caller's selection and its assignment.               *)
(***************************************************************************)

\* get_available_agents: idle or working agents below their task limit.
get_available_agents ==
    {a \in Agents : /\ current_status[a] \in {"idle", "working"}
                    /\ current_task_count[a] < max_concurrent_tasks[a]}

\* agent_score of get_best_agent_for_task,
\*   current_task_count / max(max_concurrent_tasks, 1)
\*     + (average_response_time_ms or 1000) / 10000,
\* as the fraction ScoreNum / (ScoreWeight * 10000).
ResponseTime(a) ==
    IF average_response_time_ms[a].num = 0
    THEN [num |-> DefaultResponseTimeMs, den |-> 1]
    ELSE average_response_time_ms[a]

ScoreWeight(a) ==
    (IF max_concurrent_tasks[a] > 1 THEN max_concurrent_tasks[a] ELSE 1)
        * ResponseTime(a).den

ScoreNum(a) ==
    current_task_count[a] * ResponseTimeScale * ResponseTime(a).den
    + ResponseTime(a).num
        * (IF max_concurrent_tasks[a] > 1 THEN max_concurrent_tasks[a] ELSE 1)

agent_score_leq(a, b) == ScoreNum(a) * ScoreWeight(b) <= ScoreNum(b) * ScoreWeight(a)

\* get_best_agent_for_task: min(available_agents, key=agent_score).  The query
\* has no ORDER BY, so among agents of equal score any may come first.
get_best_agent_for_task(c) ==
    /\ chosen[c] = 0
    /\ IF get_available_agents = {}
       THEN UNCHANGED chosen
       ELSE \E best \in get_available_agents :
               /\ \A other \in get_available_agents : agent_score_leq(best, other)
               /\ chosen' = [chosen EXCEPT ![c] = best]
    /\ UNCHANGED <<current_task_count, current_status, total_tasks_completed,
                   total_processing_time_seconds, average_response_time_ms>>
    /\ UNCHANGED <<worker_vars, control_vars, bus_vars, stream_vars, aggregator_vars, batcher_vars, dlq_vars, orch_vars, registry_vars, filter_vars, ws_vars>>

\* assign_task_to_agent, called with the agent the caller selected.
assign_task_to_agent(c) ==
    /\ chosen[c] # 0
    /\ current_task_count' = [current_task_count EXCEPT ![chosen[c]] = @ + 1]
    /\ current_status' = [current_status EXCEPT ![chosen[c]] =
                              IF @ = "idle" THEN "working" ELSE @]
    /\ chosen' = [chosen EXCEPT ![c] = 0]
    /\ UNCHANGED <<total_tasks_completed, total_processing_time_seconds,
                   average_response_time_ms>>
    /\ UNCHANGED <<worker_vars, control_vars, bus_vars, stream_vars, aggregator_vars, batcher_vars, dlq_vars, orch_vars, registry_vars, filter_vars, ws_vars>>

\* complete_task_for_agent
complete_task_for_agent(a, processing_time_seconds) ==
    /\ total_tasks_completed[a] < MaxCompleted
    /\ current_task_count' = [current_task_count EXCEPT ![a] =
                                  IF @ - 1 > 0 THEN @ - 1 ELSE 0]
    /\ total_tasks_completed' = [total_tasks_completed EXCEPT ![a] = @ + 1]
    /\ IF processing_time_seconds # 0
       THEN /\ total_processing_time_seconds' =
                   [total_processing_time_seconds EXCEPT ![a] = @ + processing_time_seconds]
            /\ average_response_time_ms' = [average_response_time_ms EXCEPT ![a] =
                   [num |-> total_processing_time_seconds'[a] * MsPerSecond,
                    den |-> total_tasks_completed'[a]]]
       ELSE UNCHANGED <<total_processing_time_seconds, average_response_time_ms>>
    /\ current_status' = [current_status EXCEPT ![a] =
                              IF current_task_count'[a] = 0 THEN "idle" ELSE @]
    /\ UNCHANGED chosen
    /\ UNCHANGED <<worker_vars, control_vars, bus_vars, stream_vars, aggregator_vars, batcher_vars, dlq_vars, orch_vars, registry_vars, filter_vars, ws_vars>>

AgentNext ==
    \/ \E c \in Callers : get_best_agent_for_task(c)
    \/ \E c \in Callers : assign_task_to_agent(c)
    \/ \E a \in Agents, time \in ProcessingTimes : complete_task_for_agent(a, time)

SpecAgents == Init /\ [][AgentNext]_vars

\* C8: at every instant every agent's current_task_count is at most its
\* max_concurrent_tasks, whatever the order in which callers select an agent,
\* assign to it and complete tasks.
C8_LoadWithinLimit ==
    \A a \in Agents : current_task_count[a] <= max_concurrent_tasks[a]

(***************************************************************************)
(* Redis event bus (RedisPublisher).  publish_event awaits four commands   *)
(* one after the other; the store serves other clients between them.       *)
(***************************************************************************)

\* RedisPublisher.__init__: ChannelConfig(name="heartbeat", buffer_size=10)
channels == [ch \in BusChannels |-> [buffer_size |-> HeartbeatBufferSize]]

\* publish_event: redis.publish(channel, event_data) of a fresh event.
publish_event_publish(p, ch) ==
    /\ publisher_pc[p] = "idle"
    /\ next_event_id < MaxPublished
    /\ next_event_id' = next_event_id + 1
    /\ publisher_event' = [publisher_event EXCEPT ![p] = next_event_id + 1]
    /\ publisher_channel' = [publisher_channel EXCEPT ![p] = ch]
    /\ publisher_pc' = [publisher_pc EXCEPT ![p] = "lpush"]
    /\ publish_result' = [publish_result EXCEPT ![p] = "none"]
    /\ UNCHANGED buffer
    /\ UNCHANGED <<worker_vars, control_vars, agent_vars, stream_vars, aggregator_vars, batcher_vars, dlq_vars, orch_vars, registry_vars, filter_vars, ws_vars>>

\* publish_event: redis.lpush(buffer_key, event_data)
publish_event_lpush(p) ==
    /\ publisher_pc[p] = "lpush"
    /\ buffer' = [buffer EXCEPT ![publisher_channel[p]] = <<publisher_event[p]>> \o @]
    /\ publisher_pc' = [publisher_pc EXCEPT ![p] = "ltrim"]
    /\ UNCHANGED <<publisher_event, publisher_channel, next_event_id, publish_result>>
    /\ UNCHANGED <<worker_vars, control_vars, agent_vars, stream_vars, aggregator_vars, batcher_vars, dlq_vars, orch_vars, registry_vars, filter_vars, ws_vars>>

\* publish_event: redis.ltrim(buffer_key, 0, buffer_size - 1)
publish_event_ltrim(p) ==
    /\ publisher_pc[p] = "ltrim"
    /\ buffer' = [buffer EXCEPT ![publisher_channel[p]] =
                      IF Len(@) > channels[publisher_channel[p]].buffer_size
                      THEN SubSeq(@, 1, channels[publisher_channel[p]].buffer_size)
                      ELSE @]
    /\ publisher_pc' = [publisher_pc EXCEPT ![p] = "expire"]
    /\ UNCHANGED <<publisher_event, publisher_channel, next_event_id, publish_result>>
    /\ UNCHANGED <<worker_vars, control_vars, agent_vars, stream_vars, aggregator_vars, batcher_vars, dlq_vars, orch_vars, registry_vars, filter_vars, ws_vars>>

\* publish_event: redis.expire(buffer_key, retention_seconds); return True
publish_event_expire(p) ==
    /\ publisher_pc[p] = "expire"
    /\ publisher_pc' = [publisher_pc EXCEPT ![p] = "idle"]
    /\ publish_result' = [publish_result EXCEPT ![p] = "True"]
    /\ UNCHANGED <<publisher_event, publisher_channel, buffer, next_event_id>>
    /\ UNCHANGED <<worker_vars, control_vars, agent_vars, stream_vars, aggregator_vars, batcher_vars, dlq_vars, orch_vars, registry_vars, filter_vars, ws_vars>>

BusNext ==
    \/ \E p \in Publishers, ch \in BusChannels : publish_event_publish(p, ch)
    \/ \E p \in Publishers : publish_event_lpush(p)
    \/ \E p \in Publishers : publish_event_ltrim(p)
    \/ \E p \in Publishers : publish_event_expire(p)

SpecBus == Init /\ [][BusNext]_vars

\* C6: in every state of the store, which any other client may read, the list
\* buffer:<channel> is no longer than the channel's buffer_size, with any number
\* of publishers inside publish_event.
C6_BufferWithinCapacity ==
    \A ch \in BusChannels : Len(buffer[ch]) <= channels[ch].buffer_size

(***************************************************************************)
(* SSE connection (api/stream.py).  Only events that pass the filters are  *)
(* counted; an event's number is its place in the order of publication on  *)
(* the channel.                                                            *)
(***************************************************************************)

\* SSEConnection._handle_event for an event that passes the filters:
\* put_nowait, and on QueueFull get_nowait of the oldest, then put_nowait.
\* An asyncio.Queue is full when it holds maxsize items.
put_with_backpressure(q, event, maxsize) ==
    IF Len(q) < maxsize THEN Append(q, event)
    ELSE IF Len(q) > 0 THEN Append(Tail(q), event)
    ELSE q

\* RedisSubscriber.get_buffered_events: lrange(buffer_key, 0, limit - 1) of a
\* list that publish_event fills with lpush, so the newest event comes first.
\* The list holds the events 1..published.
get_buffered_events(published, limit) ==
    [i \in 1..(IF published < limit THEN published ELSE limit) |-> published - i + 1]

\* _send_buffered_events: recent_events[-buffer_size:] go through _handle_event
\* one by one, in the order of the list: the first half of the list, and once
\* the queue holds it, the second half.
RECURSIVE send_buffered_events(_, _, _)
send_buffered_events(q, recent_events, maxsize) ==
    IF recent_events = <<>> THEN q
    ELSE IF Len(recent_events) = 1 THEN put_with_backpressure(q, recent_events[1], maxsize)
    ELSE LET half == Len(recent_events) \div 2
             queued == send_buffered_events(q, SubSeq(recent_events, 1, half), maxsize)
             rest == SubSeq(recent_events, half + 1, Len(recent_events))
         IN  IF Len(queued) >= 0 /\ Len(rest) > 0
             THEN send_buffered_events(queued, rest, maxsize)
             ELSE queued

\* stream_events (GET /stream/): SSEConnection(...) builds event_queue with
\* maxsize 1000, then max_queue_size = max(100, buffer_size * 2) is assigned,
\* and the buffered events, if any were asked for, are queued.
stream_events(n, published) ==
    /\ ~connected
    /\ connected' = TRUE
    /\ queue_maxsize' = QueueMaxSize
    /\ max_queue_size' = IF n * 2 > MinQueueCapacity THEN n * 2 ELSE MinQueueCapacity
    /\ buffer_size' = n
    /\ event_queue' = IF n > 0
                      THEN send_buffered_events(<<>>, get_buffered_events(published, n),
                                                QueueMaxSize)
                      ELSE <<>>
    /\ subscribed_at' = published
    /\ arrived' = published
    /\ UNCHANGED delivered
    /\ UNCHANGED <<worker_vars, control_vars, agent_vars, bus_vars, aggregator_vars, batcher_vars, dlq_vars, orch_vars, registry_vars, filter_vars, ws_vars>>

\* SSEConnection._handle_event, called by the subscriber for a live event.
handle_event(passes_filters) ==
    /\ connected
    /\ IF passes_filters
       THEN /\ arrived < MaxArrived
            /\ arrived' = arrived + 1
            /\ event_queue' = put_with_backpressure(event_queue, arrived + 1, queue_maxsize)
       ELSE UNCHANGED <<arrived, event_queue>>
    /\ UNCHANGED <<connected, buffer_size, max_queue_size, queue_maxsize, subscribed_at,
                   delivered>>
    /\ UNCHANGED <<worker_vars, control_vars, agent_vars, bus_vars, aggregator_vars, batcher_vars, dlq_vars, orch_vars, registry_vars, filter_vars, ws_vars>>

\* event_generator: event = await event_queue.get(), then the event is yielded.
event_generator ==
    /\ connected
    /\ event_queue # <<>>
    /\ Len(delivered) < MaxDelivered
    /\ event_queue' = Tail(event_queue)
    /\ delivered' = Append(delivered, Head(event_queue))
    /\ UNCHANGED <<connected, buffer_size, max_queue_size, queue_maxsize, subscribed_at,
                   arrived>>
    /\ UNCHANGED <<worker_vars, control_vars, agent_vars, bus_vars, aggregator_vars, batcher_vars, dlq_vars, orch_vars, registry_vars, filter_vars, ws_vars>>

StreamNext ==
    \/ \E n \in ReplaySizes, published \in PublishedBefore : stream_events(n, published)
    \/ \E passes_filters \in BOOLEAN : handle_event(passes_filters)
    \/ event_generator

SpecStream == Init /\ [][StreamNext]_vars

\* What an SSEConnection counts: max_queue_size and the size of event_queue.
connection_counters == <<max_queue_size, Len(event_queue)>>

\* C4: a subscription opened with buffer_size N never holds more than
\* max(100, 2 * N) events in its outbound queue.
C4_QueueWithinCapacity ==
    connected =>
        Len(event_queue) <= (IF 2 * buffer_size > MinQueueCapacity
                             THEN 2 * buffer_size ELSE MinQueueCapacity)

\* C5: when an event that passes the filters arrives while the outbound queue
\* holds its capacity, exactly the oldest undelivered event is removed, the new
\* event is put at the end, and a counter of the connection goes up by one.
C5_DropOldestAndCount ==
    [][(connected /\ arrived' = arrived + 1 /\ Len(event_queue) >= max_queue_size)
          => /\ event_queue' = Append(Tail(event_queue), arrived')
             /\ \E i \in DOMAIN connection_counters :
                    connection_counters'[i] = connection_counters[i] + 1]_vars

(***************************************************************************)
(* Progress of a task                                                      *)
(***************************************************************************)

\* C11: the progress values published for a task stay within 0..100, do not
\* decrease from one step to the next within an attempt, and the attempt that
\* follows a retry starts again from 0.
C11_ProgressMonotonicWithinAttempt ==
    [][\A t \in Tasks :
          /\ progress'[t] \in 0..100
          /\ (pc[t] = "running" /\ pc'[t] = "running") => progress'[t] >= progress[t]
          /\ (StartsRunning(t) /\ retries[t] > 0) => progress'[t] = 0]_vars

\* A retried task has reported progress in its new attempt, after having
\* reported progress in a failed one.
C11_Witness ==
    \E t \in Tasks :
        /\ retries[t] > 0
        /\ pc[t] = "running"
        /\ step[t] > 1
        /\ progress[t] = progress_percent(step[t] - 1, total_steps[t])

(***************************************************************************)
(* Order of delivery to one client                                         *)
(***************************************************************************)

\* What the client gets, in order: the events already yielded, then the
\* events waiting in the queue.
client_order == delivered \o event_queue

\* C12: the events delivered to a client on one channel, the replayed ones
\* followed by the live ones, appear in the order in which they were published.
C12_DeliveryInPublishOrder ==
    \A i \in 1..(Len(client_order) - 1) : client_order[i] < client_order[i + 1]

\* The client has read nothing while BurstSize events were published on the
\* channel of a connection whose capacity is 100.
UnreadBurst ==
    /\ connected
    /\ max_queue_size = MinQueueCapacity
    /\ delivered = <<>>
    /\ arrived - subscribed_at = BurstSize

\* C13: after 1000 events that pass the filters were published faster than the
\* client reads, on a connection of capacity 100, what the client receives is
\* the 100 most recent events, in publish order.
C13_BurstKeepsMostRecent ==
    UnreadBurst =>
        client_order = [i \in 1..MinQueueCapacity |-> arrived - MinQueueCapacity + i]

(***************************************************************************)
(* Event aggregator (services/event_aggregator.py).  Time is counted in    *)
(* whole seconds (agg_now).  An event is a record with its id, type,       *)
(* priority (1 low .. 4 critical), dedup key, timestamp and the value of   *)
(* its one numeric data field.  Each specification feeds events of one     *)
(* type, so at most one batch is pending at a time.                        *)
(***************************************************************************)

\* DEFAULT_AGGREGATION_CONFIGS for METRICS_DATA, AGENT_STATUS and SYSTEM_ALERT;
\* fields not given there have the defaults of AggregationConfig.
configs ==
    [metrics_data |-> [strategy |-> "sliding_window", window_duration |-> 5,
                       max_batch_size |-> 10, max_delay |-> 5, dedup |-> FALSE],
     agent_status |-> [strategy |-> "latest_only", window_duration |-> 1,
                       max_batch_size |-> 50, max_delay |-> 2, dedup |-> TRUE],
     system_alert |-> [strategy |-> "priority_queue", window_duration |-> 1,
                       max_batch_size |-> 5, max_delay |-> 1, dedup |-> FALSE]]

\* The numeric data field of the event with the given id.
MetricValue(id) == (id % 3) + 1

\* An add_event that keeps only the event added last.
batch_add_event_Replace(b, event) ==
    [events |-> <<event>>,
     created_at |-> IF b.events = <<>> THEN agg_now ELSE b.created_at,
     last_updated |-> agg_now]

\* EventBatch.add_event on the pending batch of a type, which is created first
\* if there is none.
batch_add_event(b, event) ==
    [events |-> Append(b.events, event),
     created_at |-> IF b.events = <<>> THEN agg_now ELSE b.created_at,
     last_updated |-> agg_now]

\* EventBatch.should_flush
should_flush(b, config) ==
    \/ Len(b.events) >= config.max_batch_size
    \/ agg_now - b.created_at >= config.max_delay
    \/ (config.strategy = "sliding_window"
          /\ agg_now - b.last_updated >= config.window_duration)

\* sum(values) of EventBatch._aggregate_data over the first n events
RECURSIVE sum_values(_, _)
sum_values(events, n) ==
    IF n = 0 THEN 0 ELSE events[n].value + sum_values(events, n - 1)

\* max(self.events, key=lambda e: e.timestamp): the first event with the
\* largest timestamp
latest_event(events) ==
    events[CHOOSE i \in 1..Len(events) :
              /\ \A j \in 1..Len(events) : events[j].timestamp <= events[i].timestamp
              /\ \A j \in 1..(i - 1) : events[j].timestamp < events[i].timestamp]

\* max(e.priority for e in self.events)
\* min(e.timestamp for e in self.events)
earliest_timestamp(events) ==
    CHOOSE ts \in {events[i].timestamp : i \in 1..Len(events)} :
        \A i \in 1..Len(events) : ts <= events[i].timestamp

max_priority(events) ==
    CHOOSE p \in {events[i].priority : i \in 1..Len(events)} :
        \A i \in 1..Len(events) : events[i].priority <= p

\* An event as the output handlers get it when it was not aggregated.
plain_output(event) ==
    [aggregated |-> FALSE, id |-> event.id, event_ids |-> <<>>, sum |-> 0,
     priority |-> event.priority, key |-> event.key, value |-> event.value]

\* EventBatch.create_aggregated_event: the one event of a batch of one; else a
\* new event with the ids of all events of the batch, the statistics of the
\* merged numeric field and the other data of the latest event.
create_aggregated_event(b) ==
    IF Len(b.events) = 1 THEN plain_output(b.events[1])
    ELSE [aggregated |-> TRUE,
          id |-> latest_event(b.events).id,
          event_ids |-> [i \in 1..Len(b.events) |-> b.events[i].id],
          batch_size |-> Len(b.events),
          time_span |-> [start |-> earliest_timestamp(b.events),
                         end |-> latest_event(b.events).timestamp],
          sum |-> sum_values(b.events, Len(b.events)),
          priority |-> max_priority(b.events),
          key |-> latest_event(b.events).key,
          value |-> latest_event(b.events).value]

\* EventAggregator._flush_batch after an event was added: the batch is taken
\* out of batches and its aggregated event goes to the output handlers.  The
\* result names the batch left for the type, the priority queue and the
\* events emitted.
add_and_flush_if_due(event, config, queue) ==
    LET b == batch_add_event(batches[event.type], event)
    IN  IF should_flush(b, config)
        THEN [batch |-> NoBatch, queue |-> queue, emitted |-> <<create_aggregated_event(b)>>]
        ELSE [batch |-> b, queue |-> queue, emitted |-> <<>>]

\* EventAggregator._handle_sliding_window and _handle_count_based.  The
\* SlidingWindow object is also updated; no output path reads it.
handle_sliding_window(event, config) ==
    add_and_flush_if_due(event, config, priority_queue)

\* EventAggregator._handle_latest_only: the pending batch of the type is
\* replaced by a new batch, to which the event is added twice (add_event
\* before the batch is stored and again before should_flush).
handle_latest_only(event, config) ==
    LET b == batch_add_event(batch_add_event(NoBatch, event), event)
    IN  IF should_flush(b, config)
        THEN [batch |-> NoBatch, queue |-> priority_queue,
              emitted |-> <<create_aggregated_event(b)>>]
        ELSE [batch |-> b, queue |-> priority_queue, emitted |-> <<>>]

\* PriorityEvent.__lt__
priority_event_lt(a, b) ==
    IF a.priority # b.priority THEN a.priority < b.priority
    ELSE a.timestamp < b.timestamp

\* heapq.heappush: the queue is kept in the order in which heappop returns its
\* entries; an entry goes behind the entries it is not smaller than.
heappush(queue, entry) ==
    LET before == Cardinality({i \in 1..Len(queue) : ~priority_event_lt(entry, queue[i])})
    IN  SubSeq(queue, 1, before) \o <<entry>> \o SubSeq(queue, before + 1, Len(queue))

\* EventAggregator._handle_priority_queue
handle_priority_queue(event, config) ==
    LET queue == heappush(priority_queue, event)
    IN  IF event.priority >= 3
        THEN [batch |-> batches[event.type], queue |-> queue,
              emitted |-> <<plain_output(event)>>]
        ELSE add_and_flush_if_due(event, config, queue)

\* EventDeduplicator.is_duplicate: entries older than the ttl (twice max_delay)
\* are removed, then the key is looked up.
seen_after_cleanup(config) ==
    [k \in DedupKeys |->
        IF seen_events[k].present /\ agg_now - seen_events[k].at > 2 * config.max_delay
        THEN [present |-> FALSE, at |-> 0]
        ELSE seen_events[k]]

is_duplicate(event, config) == seen_after_cleanup(config)[event.key].present

NoneReceived == [k \in DedupKeys |-> 0]

\* EventAggregator.process_event.  Events are fed until the aggregator is
\* stopped.
process_event(ty, priority, key) ==
    /\ running
    /\ fed < MaxFed
    /\ fed' = fed + 1
    /\ first_fed_at' = IF fed = 0 THEN agg_now ELSE first_fed_at
    /\ last_fed_at' = agg_now
    /\ LET config == configs[ty]
           event == [id |-> fed + 1, type |-> ty, priority |-> priority, key |-> key,
                     timestamp |-> agg_now, value |-> MetricValue(fed + 1)]
       IN  IF config.dedup /\ is_duplicate(event, config)
           THEN /\ seen_events' = seen_after_cleanup(config)
                /\ call_outputs' = 0
                /\ newest_received' = [newest_received EXCEPT ![key] = fed + 1]
                /\ UNCHANGED <<batches, priority_queue, outputs, accepted, flush_errors>>
           ELSE LET handled ==
                        CASE config.strategy = "sliding_window" ->
                                 handle_sliding_window(event, config)
                          [] config.strategy = "latest_only" ->
                                 handle_latest_only(event, config)
                          [] config.strategy = "priority_queue" ->
                                 handle_priority_queue(event, config)
                IN  /\ seen_events' =
                           IF config.dedup
                           THEN [seen_after_cleanup(config) EXCEPT
                                    ![key] = [present |-> TRUE, at |-> agg_now]]
                           ELSE seen_events
                    /\ batches' = [batches EXCEPT ![ty] = handled.batch]
                    /\ priority_queue' = handled.queue
                    /\ outputs' = outputs \o handled.emitted
                    /\ call_outputs' = Len(handled.emitted)
                    /\ accepted' = accepted \cup {fed + 1}
                    /\ UNCHANGED flush_errors
                    /\ newest_received' =
                           IF handled.emitted # <<>> /\ handled.batch = NoBatch
                           THEN NoneReceived
                           ELSE [newest_received EXCEPT ![key] = fed + 1]
    /\ UNCHANGED <<agg_now, running>>
    /\ UNCHANGED <<worker_vars, control_vars, agent_vars, bus_vars, stream_vars, batcher_vars, dlq_vars, orch_vars, registry_vars, filter_vars, ws_vars>>

\* Types whose pending batch is due.
expired_types == {ty \in AggTypes : batches[ty].events # <<>> /\ should_flush(batches[ty], configs[ty])}

\* Types with a pending batch.
pending_types == {ty \in AggTypes : batches[ty].events # <<>>}

\* The aggregated events of the batches of the given types.
RECURSIVE flush_batches(_)
flush_batches(types) ==
    IF types = {} THEN <<>>
    ELSE LET ty == CHOOSE t \in types : TRUE
             rest == types \ {ty}
         IN  <<create_aggregated_event(batches[ty])>> \o flush_batches(rest)

\* EventAggregator._flush_priority_queue: entries are popped while the first
\* one is older than one second.
popped_count ==
    Cardinality({n \in 1..Len(priority_queue) :
                    \A i \in 1..n : priority_queue[i].timestamp < agg_now - 1})

\* One pass of _periodic_flush_loop: _check_and_flush_expired_batches, then
\* _flush_priority_queue.
periodic_flush ==
    /\ running
    /\ batches' = [ty \in AggTypes |-> IF ty \in expired_types THEN NoBatch ELSE batches[ty]]
    /\ priority_queue' = SubSeq(priority_queue, popped_count + 1, Len(priority_queue))
    /\ outputs' = outputs \o flush_batches(expired_types)
                     \o [i \in 1..popped_count |-> plain_output(priority_queue[i])]
    /\ newest_received' = IF expired_types # {} THEN NoneReceived ELSE newest_received
    /\ UNCHANGED <<agg_now, fed, first_fed_at, last_fed_at, running, seen_events,
                   call_outputs, accepted, flush_errors>>
    /\ UNCHANGED <<worker_vars, control_vars, agent_vars, bus_vars, stream_vars, batcher_vars, dlq_vars, orch_vars, registry_vars, filter_vars, ws_vars>>

\* EventAggregator.stop_periodic_flush: the loop is cancelled and
\* flush_all_batches flushes every pending batch.
stop_periodic_flush_call ==
    /\ running
    /\ running' = FALSE
    /\ batches' = [ty \in AggTypes |-> NoBatch]
    /\ outputs' = outputs \o flush_batches(pending_types)
    /\ newest_received' = NoneReceived
    /\ UNCHANGED <<agg_now, fed, first_fed_at, last_fed_at, seen_events, priority_queue,
                   call_outputs, accepted, flush_errors>>

\* stop_periodic_flush called on its own.
stop_periodic_flush ==
    /\ stop_periodic_flush_call
    /\ UNCHANGED <<worker_vars, control_vars, agent_vars, bus_vars, stream_vars, batcher_vars, dlq_vars, orch_vars, registry_vars, filter_vars, ws_vars>>

\* Time passes.
aggregator_tick ==
    /\ agg_now < MaxAggNow
    /\ agg_now' = agg_now + 1
    /\ UNCHANGED <<fed, first_fed_at, last_fed_at, running, batches, seen_events,
                   priority_queue, outputs, call_outputs, newest_received, accepted,
                   flush_errors>>
    /\ UNCHANGED <<worker_vars, control_vars, agent_vars, bus_vars, stream_vars, batcher_vars, dlq_vars, orch_vars, registry_vars, filter_vars, ws_vars>>

\* Time passes between bursts of BurstLen events.
burst_tick ==
    /\ fed % BurstLen = 0
    /\ aggregator_tick

MetricsNext ==
    \/ process_event("metrics_data", 2, "a1")
    \/ periodic_flush
    \/ stop_periodic_flush
    \/ burst_tick

SpecMetrics == Init /\ [][MetricsNext]_vars

\* The ids carried by the aggregated events among the outputs.
aggregated_ids ==
    UNION {{outputs[i].event_ids[j] : j \in 1..Len(outputs[i].event_ids)} :
              i \in {k \in 1..Len(outputs) : outputs[k].aggregated}}

\* The sums carried by the first n outputs, added up.
RECURSIVE sum_of_sums(_)
sum_of_sums(n) ==
    IF n = 0 THEN 0 ELSE outputs[n].sum + sum_of_sums(n - 1)

\* The values of the events 1..n, added up.
RECURSIVE sum_of_originals(_)
sum_of_originals(n) ==
    IF n = 0 THEN 0 ELSE MetricValue(n) + sum_of_originals(n - 1)

\* 25 metrics events were fed within the 5 s window and the aggregator then
\* flushed everything.
MetricsScenario ==
    /\ fed = ScenarioEvents
    /\ last_fed_at - first_fed_at < configs["metrics_data"].window_duration
    /\ ~running

\* C14: 25 metrics events fed within 5 s (sliding window 5 s, max batch 10) and
\* then flushed give at most 3 aggregated events, whose event_ids together are
\* the 25 original ids and whose sums add up to the sum over the 25 originals.
C14_MetricsBatchesPreserveEvents ==
    MetricsScenario =>
        /\ Len(outputs) <= 3
        /\ \A i \in 1..Len(outputs) : outputs[i].aggregated
        /\ aggregated_ids = 1..ScenarioEvents
        /\ sum_of_sums(Len(outputs)) = sum_of_originals(ScenarioEvents)

\* The scenario of C14 with its three aggregated events.
C14_Witness ==
    MetricsScenario /\ Len(outputs) = 3 /\ Len(outputs[3].event_ids) = 5

(***************************************************************************)
(* Agent status events under the latest-only strategy.                     *)
(***************************************************************************)

\* An agent_status event of the agent with the given dedup key arrives.
status_event(key) ==
    /\ fed < MaxStatusFed
    /\ process_event("agent_status", 2, key)

LatestNext ==
    \/ \E key \in DedupKeys : status_event(key)
    \/ periodic_flush
    \/ stop_periodic_flush
    \/ aggregator_tick

SpecLatest == Init /\ [][LatestNext]_vars

\* The ids of the events of the given key in the pending agent_status batch.
kept_ids(key) ==
    {batches["agent_status"].events[i].id :
        i \in {j \in 1..Len(batches["agent_status"].events) :
                  batches["agent_status"].events[j].key = key}}

\* The ids of the events emitted by the step.
emitted_ids ==
    UNION {IF outputs'[i].aggregated
           THEN {outputs'[i].event_ids[j] : j \in 1..Len(outputs'[i].event_ids)}
           ELSE {outputs'[i].id} :
              i \in (Len(outputs) + 1)..Len(outputs')}

\* C15: under latest-only, the event kept for a dedup key is the newest one
\* received for that key since the previous flush, and a flush emits, for
\* each key that received events, that newest event.
C15_LatestOnlyKeepsNewest ==
    [][\A key \in DedupKeys :
          /\ newest_received'[key] # 0 => kept_ids(key)' = {newest_received'[key]}
          /\ (newest_received[key] # 0 /\ newest_received'[key] = 0)
                 => newest_received[key] \in emitted_ids]_vars

(***************************************************************************)
(* System alerts under the priority-queue strategy.                        *)
(***************************************************************************)

\* EventPriority: LOW = 1, NORMAL = 2, HIGH = 3, CRITICAL = 4.
Priorities == 1..4

\* A system_alert event of the given priority arrives.
alert_event(priority) ==
    /\ fed < MaxAlertFed
    /\ process_event("system_alert", priority, "a1")

PriorityNext ==
    \/ \E priority \in Priorities : alert_event(priority)
    \/ periodic_flush
    \/ stop_periodic_flush
    \/ aggregator_tick

SpecPriority == Init /\ [][PriorityNext]_vars

\* The step is a process_event call for an event of the given priorities.
receives(priorities) ==
    /\ fed' = fed + 1
    /\ \E i \in 1..Len(priority_queue') :
          priority_queue'[i].id = fed' /\ priority_queue'[i].priority \in priorities

\* C16: under the priority-queue strategy, the process_event call that
\* receives an event of priority high or critical emits it, and the call that
\* receives an event of lower priority does not emit it.
C16_HighEmittedAtOnceLowerLater ==
    [][/\ receives({3, 4}) => fed' \in emitted_ids
       /\ receives({1, 2}) => fed' \notin emitted_ids]_vars

(***************************************************************************)
(* The worker's event publisher (celery_worker/events.py): the events of   *)
(* one task, produced by one worker.  Events are numbered in the order in  *)
(* which the worker produces them.                                         *)
(***************************************************************************)

\* EventBatcher._flush_events: every event is published on its own and, when
\* there are several, one event_batch event follows (id 0).  When the Redis
\* client raises, _publish_single_event raises on its first publish and
\* _flush_events logs the exception and returns.
_flush_events(events, redis_raises) ==
    IF redis_raises THEN <<>>
    ELSE events \o (IF Len(events) > 1 THEN <<[id |-> 0, type |-> "event_batch"]>> ELSE <<>>)

\* The ids of the events of a flush that were not published.
failed_ids(events, redis_raises) ==
    IF redis_raises THEN {events[i].id : i \in 1..Len(events)} ELSE {}

\* The batch_timeout has passed since the type was last flushed.
timeout_reached(ty) ==
    ~last_flush[ty].ever \/ batch_now - last_flush[ty].at >= batch_timeout

\* EventPublisher.publish_event and EventBatcher.add_event for the next event
\* of the task: add_event raises nothing, so publish_event returns True.
add_event(ty, priority, force_immediate, redis_raises) ==
    LET event == [id |-> produced + 1, type |-> ty]
        batch == Append(pending_events[ty], event)
    IN  /\ produced' = produced + 1
        /\ returned_true' = returned_true \cup {event.id}
        /\ IF priority >= ImmediatePriority \/ force_immediate
           THEN /\ ai_dashboard_events' =
                      ai_dashboard_events \o _flush_events(<<event>>, redis_raises)
                /\ publish_failed' = publish_failed \cup failed_ids(<<event>>, redis_raises)
                /\ UNCHANGED <<pending_events, last_flush>>
           ELSE IF Len(batch) >= batch_size \/ timeout_reached(ty)
           THEN /\ pending_events' = [pending_events EXCEPT ![ty] = <<>>]
                /\ last_flush' = [last_flush EXCEPT ![ty] = [ever |-> TRUE, at |-> batch_now]]
                /\ ai_dashboard_events' =
                      ai_dashboard_events \o _flush_events(batch, redis_raises)
                /\ publish_failed' = publish_failed \cup failed_ids(batch, redis_raises)
           ELSE /\ pending_events' = [pending_events EXCEPT ![ty] = batch]
                /\ UNCHANGED <<last_flush, ai_dashboard_events, publish_failed>>

\* process_agent_task publishes the progress event of a step.
publish_task_progress ==
    /\ ~task_over
    /\ produced < MaxProduced
    /\ add_event("task_progress", DefaultEventPriority, FALSE, FALSE)
    /\ UNCHANGED <<batch_now, task_over>>
    /\ UNCHANGED <<worker_vars, control_vars, agent_vars, bus_vars, stream_vars, aggregator_vars, dlq_vars, orch_vars, registry_vars, filter_vars, ws_vars>>

\* CallbackTask.on_success publishes the terminal event of the task.
on_success ==
    /\ ~task_over
    /\ produced >= 1
    /\ add_event("task_completed", DefaultEventPriority, FALSE, FALSE)
    /\ task_over' = TRUE
    /\ UNCHANGED batch_now
    /\ UNCHANGED <<worker_vars, control_vars, agent_vars, bus_vars, stream_vars, aggregator_vars, dlq_vars, orch_vars, registry_vars, filter_vars, ws_vars>>

\* The events of the type that a pass of _flush_loop flushes.
due_events(ty) ==
    IF pending_events[ty] # <<>> /\ timeout_reached(ty) THEN pending_events[ty] ELSE <<>>

\* One pass of EventBatcher._flush_loop over the types, in the order in which
\* the types were first used, with a Redis client that raises or not.
_flush_loop_pass(redis_raises) ==
    /\ \E ty \in TaskEventTypes : due_events(ty) # <<>>
    /\ pending_events' = [ty \in TaskEventTypes |->
                             IF due_events(ty) # <<>> THEN <<>> ELSE pending_events[ty]]
    /\ last_flush' = [ty \in TaskEventTypes |->
                         IF due_events(ty) # <<>> THEN [ever |-> TRUE, at |-> batch_now]
                         ELSE last_flush[ty]]
    /\ ai_dashboard_events' =
           ai_dashboard_events \o _flush_events(due_events("task_progress"), redis_raises)
              \o _flush_events(due_events("task_completed"), redis_raises)
    /\ publish_failed' = publish_failed \cup failed_ids(due_events("task_progress"), redis_raises)
                             \cup failed_ids(due_events("task_completed"), redis_raises)
    /\ UNCHANGED <<batch_now, produced, task_over, returned_true>>
    /\ UNCHANGED <<worker_vars, control_vars, agent_vars, bus_vars, stream_vars, aggregator_vars, dlq_vars, orch_vars, registry_vars, filter_vars, ws_vars>>

\* One pass of EventBatcher._flush_loop with a working Redis client.
_flush_loop == _flush_loop_pass(FALSE)

\* Time passes.
batcher_tick ==
    /\ batch_now < MaxBatchNow
    /\ batch_now' = batch_now + 1
    /\ UNCHANGED <<pending_events, last_flush, produced, task_over, ai_dashboard_events,
                   returned_true, publish_failed>>
    /\ UNCHANGED <<worker_vars, control_vars, agent_vars, bus_vars, stream_vars, aggregator_vars, dlq_vars, orch_vars, registry_vars, filter_vars, ws_vars>>

BatcherNext ==
    \/ publish_task_progress
    \/ on_success
    \/ _flush_loop
    \/ batcher_tick

SpecBatcher == Init /\ [][BatcherNext]_vars

\* The task's own events on the bus, oldest first.
task_events_published ==
    SelectSeq(ai_dashboard_events, LAMBDA e : e.type \in TaskEventTypes)

\* C17: the events a worker emits for one task are published in the order in
\* which the worker produced them.
C17_TaskEventsPublishedInOrder ==
    \A i, j \in 1..Len(task_events_published) :
        i < j => task_events_published[i].id < task_events_published[j].id

(***************************************************************************)
(* The administrative endpoints of api/system.py next to the worker tasks  *)
(* that keep the pause flag.                                               *)
(***************************************************************************)

\* pause_all (POST /system/pause-all): returns status paused.
pause_all ==
    /\ response' = [iface |-> "pause_all", rate |-> 0, status |-> "paused"]
    /\ UNCHANGED <<system_throttle_rate, system_throttle, calls>>
    /\ UNCHANGED <<worker_vars, agent_vars, bus_vars, stream_vars, aggregator_vars, batcher_vars, dlq_vars, orch_vars, registry_vars, filter_vars, ws_vars>>

\* system_run (POST /system/run): returns status running.
system_run ==
    /\ response' = [iface |-> "system_run", rate |-> 0, status |-> "running"]
    /\ UNCHANGED <<system_throttle_rate, system_throttle, calls>>
    /\ UNCHANGED <<worker_vars, agent_vars, bus_vars, stream_vars, aggregator_vars, batcher_vars, dlq_vars, orch_vars, registry_vars, filter_vars, ws_vars>>

SystemNext ==
    \/ pause_all
    \/ system_run
    \/ \E rate \in Rates : set_throttle(rate)
    \/ get_system_status
    \/ broadcast_pause_all
    \/ broadcast_resume_all
    \/ Tick

SpecSystem == Init /\ [][SystemNext]_vars

\* The step is the return of a call of the given endpoint.
Returns(iface) == response'.iface = iface /\ response' # response

\* C18: when POST /system/pause-all returns, the pause flag that the workers
\* read is set; when POST /system/run returns, it is clear.
C18_PauseEndpointsSetAndClearFlag ==
    [][/\ Returns("pause_all") => Paused'
       /\ Returns("system_run") => ~Paused']_vars

(***************************************************************************)
(* The workers next to the two throttle interfaces.                        *)
(***************************************************************************)

\* Two rates that both interfaces accept: 0.5 and 2.0.
AcceptedRates == {5, MaxRate}

ThrottleNext ==
    \/ \E batch \in SUBSET Tasks : task_orchestrator(batch)
    \/ \E t \in Tasks : process_agent_task_start(t)
    \/ \E t \in Tasks : process_agent_task_store(t)
    \/ \E t \in Tasks, n \in StepCounts : process_agent_task_expire(t, n)
    \/ \E t \in Tasks : process_agent_task_step(t)
    \/ \E t \in Tasks : process_agent_task_fail(t)
    \/ \E t \in Tasks : process_agent_task_finish(t)
    \/ \E rate \in AcceptedRates : set_throttle(rate)
    \/ \E rate \in AcceptedRates : adjust_throttle(rate)

SpecThrottle == Init /\ [][ThrottleNext]_vars

\* A running task goes through one pass of its step loop.
CompletesStep(t) == pc[t] = "running" /\ step'[t] = step[t] + 1

\* C19: once POST /system/throttle has stored a rate, every processing step
\* reads and uses the rate the endpoint stored last.
C19_StepUsesEndpointRate ==
    [][\A t \in Tasks :
          (CompletesStep(t) /\ system_throttle.present)
             => throttle_rate'[t] = system_throttle.value]_vars

(***************************************************************************)
(* The event bus with a store whose commands may fail.                     *)
(***************************************************************************)

\* publish_event: the command the publisher is about to send (lpush, ltrim or
\* expire) raises; the except clause of publish_event logs and returns False.
publish_event_except(p) ==
    /\ publisher_pc[p] \in {"lpush", "ltrim", "expire"}
    /\ publisher_pc' = [publisher_pc EXCEPT ![p] = "idle"]
    /\ publish_result' = [publish_result EXCEPT ![p] = "False"]
    /\ UNCHANGED <<publisher_event, publisher_channel, buffer, next_event_id>>
    /\ UNCHANGED <<worker_vars, control_vars, agent_vars, stream_vars, aggregator_vars, batcher_vars, dlq_vars, orch_vars, registry_vars, filter_vars, ws_vars>>

\* A publisher calls publish_event, for one of the first MaxFaultPublished events.
publish_event_call(p, ch) ==
    /\ next_event_id < MaxFaultPublished
    /\ publish_event_publish(p, ch)

BusFaultNext ==
    \/ \E p \in Publishers, ch \in BusChannels : publish_event_call(p, ch)
    \/ \E p \in Publishers : publish_event_lpush(p)
    \/ \E p \in Publishers : publish_event_ltrim(p)
    \/ \E p \in Publishers : publish_event_expire(p)
    \/ \E p \in Publishers : publish_event_except(p)

SpecBusFault == Init /\ [][BusFaultNext]_vars

\* The publisher's call returns in this step, after its broadcast succeeded.
ReturnsAfterBroadcast(p) ==
    publisher_pc[p] \in {"lpush", "ltrim", "expire"} /\ publisher_pc'[p] = "idle"

\* C20: a publish_event call whose pub/sub broadcast succeeded reports success,
\* also when the list push, the trim or the TTL update fails afterwards.
C20_BufferFailureDoesNotFailPublish ==
    [][\A p \in Publishers :
          ReturnsAfterBroadcast(p) => publish_result'[p] = "True"]_vars

(***************************************************************************)
(* Stale active records and the maintenance sweep.                         *)
(***************************************************************************)

\* Attempts that hang after they have started, the clock and the sweep.
StaleNext ==
    \/ \E batch \in SUBSET Tasks : task_orchestrator(batch)
    \/ \E t \in Tasks : process_agent_task_start(t)
    \/ \E t \in Tasks : process_agent_task_store(t)
    \/ \E t \in Tasks : process_agent_task_expire(t, MinSteps)
    \/ Tick
    \/ cleanup_completed

SpecStale == Init /\ [][StaleNext]_vars

\* The active record of the task is in the store and was written more than
\* two hours ago.
PresentOverTwoHours(t) ==
    KeyAlive(active_tasks[t]) /\ clock - active_tasks[t].started_at > StaleHours

\* C21: a maintenance sweep that finds an active record more than 2 h old
\* writes a failure record for the task, with the worker-timeout cause, and
\* deletes the active record.
C21_StaleRecordMovedToFailed ==
    [][\A t \in Tasks :
          (cleanup_completed /\ PresentOverTwoHours(t))
             => /\ task_failures'[t].present
                /\ task_failures'[t].cleanup
                /\ task_failures'[t].at = clock
                /\ active_tasks'[t] = NoKey]_vars

\* A sweep has moved a task to failed: its failure record carries the cleanup
\* reason and its active record is gone.
C21_Witness ==
    \E t \in Tasks :
        /\ RecordAlive(task_failures[t]) /\ task_failures[t].cleanup
        /\ active_tasks[t] = NoKey

(***************************************************************************)
(* Dead letter queue (DeadLetterQueueHandler).  An error message is a      *)
(* sequence of words.                                                      *)
(***************************************************************************)

ErrorMessages == {<<"Rate", "limit", "exceeded">>, <<"Invalid", "input">>}

RetryCounts == {MaxDlqRetryCount, MaxDlqRetryCount + 1, PermanentRetryCount,
                PermanentRetryCount + 1}

\* str.lower on the words of the messages.
lower(word) ==
    CASE word = "Rate" -> "rate"
      [] word = "Invalid" -> "invalid"
      [] OTHER -> word

\* _should_retry_task: transient_errors
transient_errors ==
    {<<"timeout">>, <<"connection">>, <<"network">>, <<"rate", "limit">>, <<"overload">>,
     <<"busy">>, <<"unavailable">>}

\* keyword in error
keyword_in(keyword, error) ==
    \E i \in 1..Len(error) :
        /\ i + Len(keyword) - 1 <= Len(error)
        /\ \A j \in 1..Len(keyword) : error[i + j - 1] = keyword[j]

\* A _should_retry_task that retries up to the permanent-failure threshold.
_should_retry_task_Lenient(dlq_entry) ==
    LET error == [i \in 1..Len(dlq_entry.error) |-> lower(dlq_entry.error[i])]
    IN  IF dlq_entry.retry_count > PermanentRetryCount THEN FALSE
        ELSE \E keyword \in transient_errors : keyword_in(keyword, error)

\* DeadLetterQueueHandler._should_retry_task
_should_retry_task(dlq_entry) ==
    LET error == [i \in 1..Len(dlq_entry.error) |-> lower(dlq_entry.error[i])]
    IN  IF dlq_entry.retry_count > MaxDlqRetryCount THEN FALSE
        ELSE \E keyword \in transient_errors : keyword_in(keyword, error)

\* DeadLetterQueueHandler.add_to_dlq: zadd with the time as score.
add_to_dlq(error, retry_count) ==
    /\ dlq_added < MaxDlqEntries
    /\ dlq_added' = dlq_added + 1
    /\ dlq_entries' = dlq_entries \cup
           {[task_id |-> dlq_added + 1, error |-> error, retry_count |-> retry_count,
             score |-> dlq_now]}
    /\ UNCHANGED <<dlq_now, requeued, permanent_failures>>
    /\ UNCHANGED <<base_vars, orch_vars, registry_vars, filter_vars, ws_vars>>

\* process_dlq: zrangebyscore('dead_letter_queue', cutoff_time, '+inf')
dlq_window == {e \in dlq_entries : e.score >= dlq_now - max_age_hours}

\* DeadLetterQueueHandler._requeue_task: apply_async(queue='normal', priority=2)
_requeue_task(dlq_entry) ==
    [task_id |-> dlq_entry.task_id, queue |-> "normal", priority |-> RequeuePriority,
     retry_count |-> dlq_entry.retry_count + 1]

\* DeadLetterQueueHandler._mark_permanently_failed: hset and expire 604800
_mark_permanently_failed(dlq_entry) ==
    [task_id |-> dlq_entry.task_id, status |-> "permanently_failed",
     expire_at |-> dlq_now + PermanentRetentionHours]

\* DeadLetterQueueHandler.process_dlq, with the tasks for which apply_async
\* raises in _requeue_task: the entry is removed before _requeue_task is
\* called, and _requeue_task logs the exception and returns.
process_dlq_sweep(apply_async_raises) ==
    LET retried == {e \in dlq_window : _should_retry_task(e)}
        permanent == {e \in dlq_window \ retried : e.retry_count > PermanentRetryCount}
    IN  /\ dlq_entries' = dlq_entries \ (retried \cup permanent)
        /\ requeued' = requeued \cup
               {_requeue_task(e) : e \in {r \in retried : r.task_id \notin apply_async_raises}}
        /\ permanent_failures' =
               {f \in permanent_failures : f.task_id \notin {e.task_id : e \in permanent}}
                  \cup {_mark_permanently_failed(e) : e \in permanent}
        /\ UNCHANGED <<dlq_now, dlq_added>>
        /\ UNCHANGED <<base_vars, orch_vars, registry_vars, filter_vars, ws_vars>>

\* DeadLetterQueueHandler.process_dlq with a broker that accepts every task.
process_dlq == process_dlq_sweep({})

\* A day passes.
dlq_tick ==
    /\ dlq_now + DayHours <= MaxDlqNow
    /\ dlq_now' = dlq_now + DayHours
    /\ UNCHANGED <<dlq_added, dlq_entries, requeued, permanent_failures>>
    /\ UNCHANGED <<base_vars, orch_vars, registry_vars, filter_vars, ws_vars>>

DlqNext ==
    \/ \E error \in ErrorMessages, retry_count \in RetryCounts : add_to_dlq(error, retry_count)
    \/ process_dlq
    \/ dlq_tick

SpecDlq == Init /\ [][DlqNext]_vars

\* The error message of the entry contains a word of the transient-error lexicon.
MatchesLexicon(e) ==
    \E i \in 1..Len(e.error) :
        lower(e.error[i]) \in {"timeout", "connection", "network", "overload", "busy",
                               "unavailable"}
           \/ (i < Len(e.error) /\ lower(e.error[i]) = "rate" /\ lower(e.error[i + 1]) = "limit")

RequestPriorities == {"critical", "high", "normal", "low", "urgent"}

\* agent_preferences of the request, in the order in which agent_loads gets its keys.
agent_preferences == <<"gpt-4", "claude-3">>

AgentTypes == {agent_preferences[i] : i \in 1..Len(agent_preferences)}

\* The position of the agent type in agent_preferences.
preference_index(a) == CHOOSE i \in 1..Len(agent_preferences) : agent_preferences[i] = a

\* sorted(agent_loads.keys(), key=lambda x: agent_loads[x]): a stable sort of
\* the keys, which are in the order of agent_preferences.
sorted_agents(agent_loads) ==
    [k \in 1..Len(agent_preferences) |->
        CHOOSE a \in AgentTypes :
            Cardinality({b \in AgentTypes :
                \/ agent_loads[b] < agent_loads[a]
                \/ (agent_loads[b] = agent_loads[a]
                      /\ preference_index(b) < preference_index(a))}) = k - 1]

\* selected_agent = sorted_agents[i % len(sorted_agents)]
selected_agent(i, agent_loads) ==
    sorted_agents(agent_loads)[(i % Len(agent_preferences)) + 1]

\* The apply_async call of the loop: queue and priority of the message.
apply_async(priority) ==
    IF priority = "urgent" THEN [queue |-> "high_priority", priority |-> UrgentQueuePriority]
    ELSE IF priority = "high" THEN [queue |-> "high_priority", priority |-> HighQueuePriority]
    ELSE [queue |-> "normal", priority |-> NormalQueuePriority]

\* The loop over the tasks i..count-1 of the request (i counts from 0).
RECURSIVE schedule(_, _, _, _)
schedule(i, count, priority, agent_loads) ==
    IF i >= count THEN <<>>
    ELSE LET agent == selected_agent(i, agent_loads)
             message == apply_async(priority)
             loads_after == [agent_loads EXCEPT ![agent] = @ + 1]
             rest == schedule(i + 1, count, priority, loads_after)
         IN  <<[queue |-> message.queue, priority |-> message.priority,
                agent_type |-> agent, agent_loads |-> agent_loads]>> \o rest

\* task_orchestrator for a request of count tasks, with the loads of the
\* preferred agent types as the active records show them.
task_orchestrator_schedule(priority, count, agent_loads) ==
    /\ orchestration_request' = [priority |-> priority, count |-> count]
    /\ scheduled_tasks' = schedule(0, count, priority, agent_loads)
    /\ UNCHANGED <<base_vars, dlq_vars, registry_vars, filter_vars, ws_vars>>

OrchestrationNext ==
    \E priority \in RequestPriorities, count \in 1..MaxBatchTasks,
       agent_loads \in [AgentTypes -> 0..MaxLoad] :
        task_orchestrator_schedule(priority, count, agent_loads)

SpecOrchestration == Init /\ [][OrchestrationNext]_vars

\* The lane the priority stands for.
LaneOfPriority(priority) ==
    CASE priority \in {"critical", "high"} -> "high_priority"
      [] priority = "normal" -> "normal"
      [] priority = "low" -> "background"

\* C23: every task of a request with priority critical or high is enqueued on
\* the high lane, with priority normal on the normal lane and with priority
\* low on the background lane.
C23_LaneChosenByPriority ==
    orchestration_request.priority \in {"critical", "high", "normal", "low"} =>
        /\ Len(scheduled_tasks) = orchestration_request.count
        /\ \A i \in 1..Len(scheduled_tasks) :
              scheduled_tasks[i].queue = LaneOfPriority(orchestration_request.priority)

\* C24: the agent chosen for a task has the minimum load among the preferred
\* agent types at the moment of selection, the tasks of the same request that
\* were enqueued before included.
C24_LeastLoadedAgentSelected ==
    \A i \in 1..Len(scheduled_tasks) :
        \A a \in AgentTypes :
            scheduled_tasks[i].agent_loads[scheduled_tasks[i].agent_type]
                <= scheduled_tasks[i].agent_loads[a]

(***************************************************************************)
(* The aggregator when create_aggregated_event or the processing of an     *)
(* event raises.                                                           *)
(***************************************************************************)

\* A fallback that passes only the first event of the batch through.
fallback_outputs_First(events) ==
    IF events = <<>> THEN <<>> ELSE <<plain_output(events[1])>>

\* _flush_batch, except clause: every event of the batch goes to the output
\* handlers on its own.
fallback_outputs(events) ==
    [i \in 1..Len(events) |-> plain_output(events[i])]

\* process_event, except clause: something in the processing of the event
\* raises before the event is in a batch, and the event is output directly.
process_event_except(ty, priority, key) ==
    /\ running
    /\ fed < MaxFallbackFed
    /\ fed' = fed + 1
    /\ first_fed_at' = IF fed = 0 THEN agg_now ELSE first_fed_at
    /\ last_fed_at' = agg_now
    /\ LET event == [id |-> fed + 1, type |-> ty, priority |-> priority, key |-> key,
                     timestamp |-> agg_now, value |-> MetricValue(fed + 1)]
       IN  outputs' = outputs \o fallback_outputs(<<event>>)
    /\ call_outputs' = 1
    /\ accepted' = accepted \cup {fed + 1}
    /\ UNCHANGED flush_errors
    /\ UNCHANGED <<agg_now, running, batches, seen_events, priority_queue, newest_received>>
    /\ UNCHANGED <<worker_vars, control_vars, agent_vars, bus_vars, stream_vars, batcher_vars,
                   dlq_vars, orch_vars, registry_vars, filter_vars, ws_vars>>

\* The due batches for which create_aggregated_event can raise: those with
\* more than one event, whose data are merged.
can_raise == {ty \in expired_types : Len(batches[ty].events) > 1}

\* The outputs of the flushes of the given types when create_aggregated_event
\* raises for the failing ones.
RECURSIVE flush_batches_except(_, _)
flush_batches_except(types, failing) ==
    IF types = {} THEN <<>>
    ELSE LET ty == CHOOSE t \in types : TRUE
             rest == flush_batches_except(types \ {ty}, failing)
             out == IF ty \in failing THEN fallback_outputs(batches[ty].events)
                    ELSE <<create_aggregated_event(batches[ty])>>
         IN  out \o rest

\* One pass of _periodic_flush_loop in which create_aggregated_event raises
\* for the failing batches.
periodic_flush_except(failing) ==
    /\ running
    /\ failing # {}
    /\ failing \subseteq can_raise
    /\ batches' = [ty \in AggTypes |-> IF ty \in expired_types THEN NoBatch ELSE batches[ty]]
    /\ priority_queue' = SubSeq(priority_queue, popped_count + 1, Len(priority_queue))
    /\ outputs' = outputs \o flush_batches_except(expired_types, failing)
                     \o [i \in 1..popped_count |-> plain_output(priority_queue[i])]
    /\ newest_received' = NoneReceived
    /\ UNCHANGED <<agg_now, fed, first_fed_at, last_fed_at, running, seen_events,
                   call_outputs, accepted>>
    /\ flush_errors' = flush_errors + Cardinality(failing)
    /\ UNCHANGED <<worker_vars, control_vars, agent_vars, bus_vars, stream_vars, batcher_vars,
                   dlq_vars, orch_vars, registry_vars, filter_vars, ws_vars>>

\* A metrics event arrives, one of the first MaxFallbackFed events.
metrics_event ==
    /\ fed < MaxFallbackFed
    /\ process_event("metrics_data", 2, "a1")

FallbackNext ==
    \/ metrics_event
    \/ process_event_except("metrics_data", 2, "a1")
    \/ periodic_flush
    \/ \E failing \in SUBSET AggTypes : periodic_flush_except(failing)
    \/ stop_periodic_flush
    \/ aggregator_tick

SpecFallback == Init /\ [][FallbackNext]_vars

\* The ids of the events that the step sends to the output handlers on their own.
passed_through ==
    {outputs'[i].id : i \in {j \in (Len(outputs) + 1)..Len(outputs') : ~outputs'[j].aggregated}}

\* The ids of the events the aggregator holds in its batches.
batched_ids ==
    UNION {{batches[ty].events[i].id : i \in 1..Len(batches[ty].events)} : ty \in AggTypes}

\* C25: when the processing of an event raises, the event is passed through
\* on its own, and when the flush of a batch raises, every event of the
\* batch is; no accepted event leaves the aggregator without being emitted.
C25_ExceptionsPassEventsThrough ==
    [][/\ (\E ty \in AggTypes, p \in Priorities, k \in DedupKeys :
               process_event_except(ty, p, k)) => fed' \in passed_through
       /\ \A failing \in SUBSET AggTypes :
             periodic_flush_except(failing) =>
                \A ty \in failing :
                    \A i \in 1..Len(batches[ty].events) :
                        batches[ty].events[i].id \in passed_through
       /\ batched_ids \subseteq batched_ids' \cup emitted_ids]_vars

\* A flush has fallen back to passing the events of a batch through, and the
\* processing of an event has done so too.
C25_Witness ==
    /\ flush_errors > 0
    /\ call_outputs = 1
    /\ \A i \in 1..Len(outputs) : ~outputs[i].aggregated
    /\ batched_ids = {}
    /\ accepted = {outputs[i].id : i \in 1..Len(outputs)}
    /\ Cardinality(accepted) = MaxFallbackFed

(***************************************************************************)
(* Graceful shutdown of the aggregator.                                    *)
(***************************************************************************)

\* The ids of the events that have reached the output handlers once the step
\* is over, on their own or inside an aggregated event.
emitted_after ==
    UNION {IF outputs'[i].aggregated
           THEN {outputs'[i].event_ids[j] : j \in 1..Len(outputs'[i].event_ids)}
           ELSE {outputs'[i].id} :
              i \in 1..Len(outputs')}

\* C26: once stop_periodic_flush has returned, every event the aggregator
\* accepted and did not drop as a duplicate has been emitted and none
\* remains buffered.
C26_StopEmitsEveryAcceptedEvent ==
    [][stop_periodic_flush =>
          /\ accepted \subseteq emitted_after
          /\ \A ty \in AggTypes : batches'[ty] = NoBatch
          /\ priority_queue' = <<>>]_vars

(***************************************************************************)
(* The SSE connections of the server (api/stream.py): connecting with a    *)
(* list of channels, a minimum priority and a replay size; the listener    *)
(* task and the generator of each connection; the disconnection of the     *)
(* client; the shutdown of the application.                                *)
(***************************************************************************)

\* SSEConnection._passes_filters with the filter min_priority.
_passes_filters(event, min_priority) == event.priority >= min_priority

\* redis.lrange(buffer_key, 0, limit - 1).
lrange(list, limit) ==
    SubSeq(list, 1, IF Len(list) < limit THEN Len(list) ELSE limit)

\* recent_events[-buffer_size:]
last_events(recent_events, n) ==
    SubSeq(recent_events, IF Len(recent_events) > n THEN Len(recent_events) - n + 1 ELSE 1,
           Len(recent_events))

\* The inner loop of _send_buffered_events: the events of one channel that
\* pass the filters go through _handle_event.
RECURSIVE queue_buffered(_, _, _)
queue_buffered(q, events, min_priority) ==
    IF events = <<>> THEN q
    ELSE LET event == Head(events)
             queued == IF _passes_filters(event, min_priority)
                       THEN put_with_backpressure(q, event, QueueMaxSize)
                       ELSE q
             rest == Tail(events)
         IN  queue_buffered(queued, rest, min_priority)

\* _send_buffered_events: for every subscribed channel, in the order in which
\* the set is iterated, up to buffer_size events of its buffer are queued.
RECURSIVE _send_buffered_events(_, _, _, _)
_send_buffered_events(q, channel_order, n, min_priority) ==
    IF channel_order = <<>> THEN q
    ELSE LET recent_events == lrange(channel_buffer[Head(channel_order)], n)
             queued == queue_buffered(q, last_events(recent_events, n), min_priority)
             rest == Tail(channel_order)
         IN  _send_buffered_events(queued, rest, n, min_priority)

\* The orders in which a set of channels can be iterated.
Orders(S) ==
    {o \in [1..Cardinality(S) -> S] : \A i, j \in 1..Cardinality(S) : i # j => o[i] # o[j]}

\* stream_events (GET /stream/) for the channels of channel_list: the
\* connection is initialised, registered, sent the buffered events, and its
\* generator and listener task start.
stream_events_connect(c, channel_list, min_priority, n) ==
    /\ ~sse_shutdown
    /\ connections[c].state = "none"
    /\ \E channel_order \in Orders(channel_list) :
          LET queued == IF n > 0
                        THEN _send_buffered_events(<<>>, channel_order, n, min_priority)
                        ELSE <<>>
          IN  connections' = [connections EXCEPT ![c] =
                  [state |-> "open", subscribed_channels |-> channel_list,
                   pubsub |-> "open", min_priority |-> min_priority,
                   listener_task |-> "running", generator |-> "streaming",
                   client_gone |-> FALSE, event_queue |-> queued, replayed |-> queued,
                   sent |-> <<>>]]
    /\ active_connections' = active_connections \cup {c}
    /\ UNCHANGED <<channel_buffer, sse_shutdown>>
    /\ UNCHANGED <<base_vars, dlq_vars, orch_vars, filter_vars, ws_vars>>

\* The connections whose listener task hands an event of the channel to
\* _handle_event.
listening(ch) ==
    {c \in ConnectionIds : /\ connections[c].pubsub = "open"
                           /\ connections[c].listener_task = "running"
                           /\ ch \in connections[c].subscribed_channels}

\* The events published so far.
stream_published == Len(channel_buffer["agents"]) + Len(channel_buffer["tasks"])

\* An event is published on a channel: it is pushed on the channel's buffer
\* and every listening connection handles it (SSEConnection._handle_event).
publish_to_channel(ch, priority) ==
    /\ stream_published < MaxStreamPublished
    /\ LET event == [id |-> stream_published + 1, channel |-> ch, priority |-> priority]
       IN  /\ channel_buffer' = [channel_buffer EXCEPT ![ch] = <<event>> \o @]
           /\ connections' = [c \in ConnectionIds |->
                  IF c \in listening(ch) /\ _passes_filters(event, connections[c].min_priority)
                  THEN [connections[c] EXCEPT !.event_queue =
                           put_with_backpressure(@, event, QueueMaxSize)]
                  ELSE connections[c]]
    /\ UNCHANGED <<active_connections, sse_shutdown>>
    /\ UNCHANGED <<base_vars, dlq_vars, orch_vars, filter_vars, ws_vars>>

\* event_generator, one turn of the loop with an event in the queue: the
\* client is still there, and the event is yielded.
event_generator_yield(c) ==
    /\ connections[c].generator = "streaming"
    /\ ~connections[c].client_gone
    /\ connections[c].event_queue # <<>>
    /\ connections' = [connections EXCEPT ![c].event_queue = Tail(@),
                                          ![c].sent = Append(@, Head(connections[c].event_queue))]
    /\ UNCHANGED <<active_connections, channel_buffer, sse_shutdown>>
    /\ UNCHANGED <<base_vars, dlq_vars, orch_vars, filter_vars, ws_vars>>

\* The client goes away.
client_disconnects(c) ==
    /\ connections[c].generator = "streaming"
    /\ ~connections[c].client_gone
    /\ connections' = [connections EXCEPT ![c].client_gone = TRUE]
    /\ UNCHANGED <<active_connections, channel_buffer, sse_shutdown>>
    /\ UNCHANGED <<base_vars, dlq_vars, orch_vars, filter_vars, ws_vars>>

\* listener_task.cancel() does nothing to a task that is done.
cancel(task) == IF task = "running" THEN "cancelled" ELSE task

\* event_generator: request.is_disconnected() is true, the loop is left and
\* the finally clause cancels the listener, cleans the connection up
\* (stop_listening closes the pubsub) and deletes the registry entry.
event_generator_finally(c) ==
    /\ connections[c].generator = "streaming"
    /\ connections[c].client_gone
    /\ connections' = [connections EXCEPT ![c].listener_task = cancel(@),
                                          ![c].pubsub = "closed",
                                          ![c].generator = "finished"]
    /\ active_connections' = active_connections \ {c}
    /\ UNCHANGED <<channel_buffer, sse_shutdown>>
    /\ UNCHANGED <<base_vars, dlq_vars, orch_vars, filter_vars, ws_vars>>

\* _redis_event_listener: listen_for_events ends once the pubsub is closed.
_redis_event_listener_ends(c) ==
    /\ connections[c].listener_task = "running"
    /\ connections[c].pubsub = "closed"
    /\ connections' = [connections EXCEPT ![c].listener_task = "finished"]
    /\ UNCHANGED <<active_connections, channel_buffer, sse_shutdown>>
    /\ UNCHANGED <<base_vars, dlq_vars, orch_vars, filter_vars, ws_vars>>

\* cleanup_sse_connections, at the shutdown of the application: cleanup() of
\* every registered connection, the registry is cleared, the aggregator is
\* stopped.
cleanup_sse_connections ==
    /\ ~sse_shutdown
    /\ sse_shutdown' = TRUE
    /\ connections' = [c \in ConnectionIds |->
           IF c \in active_connections THEN [connections[c] EXCEPT !.pubsub = "closed"]
           ELSE connections[c]]
    /\ active_connections' = {}
    /\ IF running THEN stop_periodic_flush_call ELSE UNCHANGED aggregator_vars
    /\ UNCHANGED channel_buffer
    /\ UNCHANGED <<worker_vars, control_vars, agent_vars, bus_vars, stream_vars, batcher_vars,
                   dlq_vars, orch_vars, filter_vars, ws_vars>>

RegistryNext ==
    \/ \E c \in ConnectionIds, channel_list \in SUBSET StreamChannels,
          min_priority \in StreamPriorities, n \in StreamReplaySizes :
            stream_events_connect(c, channel_list, min_priority, n)
    \/ \E ch \in StreamChannels, priority \in StreamPriorities : publish_to_channel(ch, priority)
    \/ \E c \in ConnectionIds : event_generator_yield(c)
    \/ \E c \in ConnectionIds : client_disconnects(c)
    \/ \E c \in ConnectionIds : event_generator_finally(c)
    \/ \E c \in ConnectionIds : _redis_event_listener_ends(c)
    \/ cleanup_sse_connections

SpecRegistry == Init /\ [][RegistryNext]_vars

\* The subscription is over: its client has disconnected and the generator
\* has left its loop, or the application has shut down.
SubscriptionOver(c) ==
    /\ connections[c].state = "open"
    /\ connections[c].generator = "finished" \/ sse_shutdown

\* C27: after a client disconnects, and for every subscription after
\* shutdown, the listener is cancelled, the bus subscription is released and
\* the record is out of the registry; from then on no event is enqueued or
\* sent for the subscription.
C27_SubscriptionCleanedUp ==
    [][\A c \in ConnectionIds :
          /\ SubscriptionOver(c)' =>
                /\ connections'[c].listener_task = "cancelled"
                /\ connections'[c].pubsub = "closed"
                /\ c \notin active_connections'
          /\ SubscriptionOver(c) =>
                /\ connections'[c].event_queue = connections[c].event_queue
                /\ connections'[c].sent = connections[c].sent]_vars

\* A connection request with an empty channel list.
connects_without_channels(c) ==
    \E min_priority \in StreamPriorities, n \in StreamReplaySizes :
        stream_events_connect(c, {}, min_priority, n)

\* C28: a connection request whose channel list is empty is rejected: no
\* subscription is created and nothing is added to the connection registry.
C28_EmptyChannelListRejected ==
    [][\A c \in ConnectionIds :
          connects_without_channels(c) =>
             /\ connections'[c].pubsub = "none"
             /\ active_connections' = active_connections]_vars

\* The buffered events that pass the filter of the connection, over all its
\* channels.
passing_buffered(c) ==
    {e \in UNION {{channel_buffer[ch][i] : i \in 1..Len(channel_buffer[ch])} :
                     ch \in connections'[c].subscribed_channels} :
        e.priority >= connections'[c].min_priority}

\* The events replayed to the connection when it was made.
replayed_events(c) ==
    {connections'[c].replayed[i] : i \in 1..Len(connections'[c].replayed)}

\* C30: on connect with replay size N, at most N buffered events are
\* replayed in total, each of them passes the filter of the connection, and
\* they are the most recent buffered events that do so.
C30_ReplayBoundedFilteredNewest ==
    [][\A c \in ConnectionIds, n \in StreamReplaySizes :
          (\E channel_list \in SUBSET StreamChannels, min_priority \in StreamPriorities :
               stream_events_connect(c, channel_list, min_priority, n)) =>
             /\ Len(connections'[c].replayed) <= n
             /\ replayed_events(c) \subseteq passing_buffered(c)
             /\ \A e \in replayed_events(c), f \in passing_buffered(c) \ replayed_events(c) :
                    f.id < e.id]_vars

\* The events of the aggregated output: the input events it was produced from.
inputs_of(output) ==
    {output.event_ids[j] : j \in 1..Len(output.event_ids)}

RetryBase == RetryCountdown
RetryBackoffMax == 10 * RetryBase

RECURSIVE exponential(_, _)
exponential(base, n) == IF n = 0 THEN base ELSE 2 * exponential(base, n - 1)

\* C31: when an attempt fails with a retry count of at most max_retries, a
\* task_retry event is published and the next attempt is scheduled after a
\* delay that grows exponentially with the retry count from a base of 60 s
\* and never exceeds a fixed bound.
C31_RetryDelayExponential ==
    [][\A t \in Tasks :
          (pc[t] = "running" /\ pc'[t] = "queued") =>
             /\ retry_events'[t] = retry_events[t] + 1
             /\ retries'[t] <= max_retries
             /\ countdown'[t] = IF exponential(RetryBase, retries[t]) < RetryBackoffMax
                                THEN exponential(RetryBase, retries[t])
                                ELSE RetryBackoffMax]_vars

(***************************************************************************)
(* The filters of a connection (SSEConnection._passes_filters and          *)
(* WebSocketConnection._passes_filters).  A filter that is not set is a    *)
(* key that is not in event_filters.                                       *)
(***************************************************************************)

Unset == [set |-> FALSE]

\* The filter maps a client may have and the events it may be handed.  An
\* agent_id of "" is a payload without agent_id.
EventFilters ==
    [event_types : {Unset, [set |-> TRUE, value |-> {"task_progress"}]},
     min_priority : {Unset, [set |-> TRUE, value |-> 3]},
     agent_ids : {Unset, [set |-> TRUE, value |-> {"a1"}]},
     data_filters : {Unset, [set |-> TRUE, field |-> "level", value |-> "ERROR"]}]

FilteredEvents ==
    [type : {"task_progress", "agent_status"}, priority : {1, 3},
     agent_id : {"", "a1", "a2"}, level : {"INFO", "ERROR"}]

\* if not self.event_filters
no_filters(filters) ==
    /\ ~filters.event_types.set /\ ~filters.min_priority.set
    /\ ~filters.agent_ids.set /\ ~filters.data_filters.set

\* The three steps the two classes share.
passes_type_priority_agent(event, filters) ==
    /\ filters.event_types.set => event.type \in filters.event_types.value
    /\ filters.min_priority.set => event.priority >= filters.min_priority.value
    /\ filters.agent_ids.set =>
          (event.agent_id = "" \/ event.agent_id \in filters.agent_ids.value)

\* SSEConnection._passes_filters
SSEConnection_passes_filters(event, filters) ==
    \/ no_filters(filters)
    \/ /\ passes_type_priority_agent(event, filters)
       /\ filters.data_filters.set => event[filters.data_filters.field] = filters.data_filters.value

\* WebSocketConnection._passes_filters
WebSocketConnection_passes_filters(event, filters) ==
    \/ no_filters(filters)
    \/ passes_type_priority_agent(event, filters)

\* SSEConnection._handle_event: an event that passes the filters is queued.
SSEConnection_handle_event(event, filters) ==
    /\ last_handled' = [iface |-> "sse", event |-> event, filters |-> filters,
                   queued |-> SSEConnection_passes_filters(event, filters)]
    /\ UNCHANGED <<base_vars, dlq_vars, orch_vars, registry_vars, ws_vars>>

\* WebSocketConnection._handle_redis_event: an event that passes the filters
\* is sent to the client.
_handle_redis_event(event, filters) ==
    /\ last_handled' = [iface |-> "websocket", event |-> event, filters |-> filters,
                   queued |-> WebSocketConnection_passes_filters(event, filters)]
    /\ UNCHANGED <<base_vars, dlq_vars, orch_vars, registry_vars, ws_vars>>

FilterNext ==
    \/ \E event \in FilteredEvents, filters \in EventFilters :
          SSEConnection_handle_event(event, filters)
    \/ \E event \in FilteredEvents, filters \in EventFilters :
          _handle_redis_event(event, filters)

SpecFilter == Init /\ [][FilterNext]_vars

\* C32: on every connection, SSE or WebSocket, an event is queued or sent
\* only if its type is in the type allow-set when one is set, its priority
\* is at least the floor, its agent_id is in the agent allow-set when one is
\* set and the event carries an agent_id, and every pair of the
\* data-equality map equals the payload's field.
C32_OnlyFilteredEventsSent ==
    (last_handled.iface # "none" /\ last_handled.queued) =>
        LET event == last_handled.event
            filters == last_handled.filters
        IN  /\ filters.event_types.set => event.type \in filters.event_types.value
            /\ filters.min_priority.set => event.priority >= filters.min_priority.value
            /\ (filters.agent_ids.set /\ event.agent_id # "")
                  => event.agent_id \in filters.agent_ids.value
            /\ filters.data_filters.set
                  => event[filters.data_filters.field] = filters.data_filters.value

(***************************************************************************)
(* The WebSocket connections of the server (api/websocket.py): every       *)
(* connection has its own subscriber, pubsub and listener task.            *)
(***************************************************************************)

\* What can go wrong when a connection handles an event: nothing, the send
\* to the client fails, or the handler raises before the send.
Faults == {"ok", "send_fails", "handler_raises"}

\* websocket_endpoint: the connection is accepted, initialised with the
\* channels of the request and the default min_priority of 1, and registered,
\* and its listener task starts.
websocket_endpoint(c, channel_list) ==
    /\ websocket_connections[c].state = "none"
    /\ websocket_connections' = [websocket_connections EXCEPT ![c] =
           [state |-> "open", subscribed_channels |-> channel_list, pubsub |-> channel_list,
            handlers |-> [ch \in StreamChannels |-> IF ch \in channel_list THEN 1 ELSE 0],
            min_priority |-> 1, is_active |-> TRUE, listener_task |-> "running",
            messages_received |-> 0, errors_count |-> 0, sent |-> <<>>]]
    /\ active_websocket_connections' = active_websocket_connections \cup {c}
    /\ UNCHANGED ws_published
    /\ UNCHANGED <<base_vars, dlq_vars, orch_vars, registry_vars, filter_vars>>

\* The main loop of websocket_endpoint takes a message of the client.
receives_message(c) ==
    /\ websocket_connections[c].state = "open"
    /\ websocket_connections[c].is_active
    /\ websocket_connections[c].messages_received < MaxMessagesReceived

\* WebSocketConnection._handle_subscribe: the channels that are not in
\* subscribed_channels are subscribed to, and _handle_redis_event is added
\* to the handlers of each of them.  A message without channels is answered
\* with an error.
_handle_subscribe(c, channel_list) ==
    /\ receives_message(c)
    /\ LET conn == websocket_connections[c]
           new_channels == channel_list \ conn.subscribed_channels
       IN  websocket_connections' = [websocket_connections EXCEPT ![c] =
              [conn EXCEPT !.messages_received = @ + 1,
                           !.pubsub = @ \cup new_channels,
                           !.subscribed_channels = @ \cup new_channels,
                           !.handlers = [ch \in StreamChannels |->
                                IF ch \in new_channels THEN @[ch] + 1 ELSE @[ch]]]]
    /\ UNCHANGED <<active_websocket_connections, ws_published>>
    /\ UNCHANGED <<base_vars, dlq_vars, orch_vars, registry_vars, filter_vars>>

\* WebSocketConnection._handle_unsubscribe: the pubsub unsubscribes from the
\* channels of the message that are in subscribed_channels, and they are
\* discarded from it.
_handle_unsubscribe(c, channel_list) ==
    /\ receives_message(c)
    /\ LET conn == websocket_connections[c]
           left == channel_list \cap conn.subscribed_channels
       IN  websocket_connections' = [websocket_connections EXCEPT ![c] =
              [conn EXCEPT !.messages_received = @ + 1,
                           !.pubsub = @ \ left,
                           !.subscribed_channels = @ \ left]]
    /\ UNCHANGED <<active_websocket_connections, ws_published>>
    /\ UNCHANGED <<base_vars, dlq_vars, orch_vars, registry_vars, filter_vars>>

\* WebSocketConnection.send_message for an event: nothing is sent on a
\* connection that is not active; a send that fails makes it inactive.
send_message(conn, event, fault) ==
    IF ~conn.is_active THEN conn
    ELSE IF fault = "send_fails"
         THEN [conn EXCEPT !.is_active = FALSE, !.errors_count = @ + 1]
         ELSE [conn EXCEPT !.sent = Append(@, event.id)]

\* WebSocketConnection._handle_redis_event: the filters, then send_message;
\* an exception is logged and counted.
handle_redis_event(conn, event, fault) ==
    IF ~_passes_filters(event, conn.min_priority) THEN conn
    ELSE IF fault = "handler_raises" THEN [conn EXCEPT !.errors_count = @ + 1]
    ELSE send_message(conn, event, fault)

\* RedisSubscriber.listen_for_events: every handler of the channel is called
\* with the event, each inside its own try.
RECURSIVE call_handlers(_, _, _, _)
call_handlers(conn, event, fault, n) ==
    IF n = 0 THEN conn
    ELSE LET after == handle_redis_event(conn, event, fault)
         IN  call_handlers(after, event, fault, n - 1)

\* A listener that dies with the first failure of any connection.
listen_for_events_Shared(c, event, faults) ==
    LET conn == websocket_connections[c]
    IN  IF \E d \in ConnectionIds : faults[d] # "ok"
        THEN [conn EXCEPT !.listener_task = IF @ = "running" THEN "finished" ELSE @]
        ELSE call_handlers(conn, event, faults[c], conn.handlers[event.channel])

\* The listener task of connection c gets the message of the event from its
\* own pubsub, calls the handlers, and _websocket_event_listener leaves its
\* loop if the connection is no longer active.
listen_for_events(c, event, faults) ==
    LET conn == websocket_connections[c]
        after == call_handlers(conn, event, faults[c], conn.handlers[event.channel])
    IN  IF after.is_active THEN after ELSE [after EXCEPT !.listener_task = "finished"]

\* The connections whose pubsub gets the messages of the channel.
ws_listening(ch) ==
    {c \in ConnectionIds : /\ websocket_connections[c].listener_task = "running"
                           /\ ch \in websocket_connections[c].pubsub}

\* An event is published on a channel and handled by every listener.
ws_publish(ch, faults) ==
    /\ Len(ws_published) < MaxWsPublished
    /\ ws_published' = Append(ws_published, ch)
    /\ LET event == [id |-> Len(ws_published) + 1, channel |-> ch, priority |-> 2]
       IN  websocket_connections' = [c \in ConnectionIds |->
              IF c \in ws_listening(ch) THEN listen_for_events(c, event, faults)
              ELSE websocket_connections[c]]
    /\ UNCHANGED active_websocket_connections
    /\ UNCHANGED <<base_vars, dlq_vars, orch_vars, registry_vars, filter_vars>>

\* websocket_endpoint, WebSocketDisconnect and the finally clause: the
\* listener is cancelled, cleanup() closes the pubsub, the registry entry is
\* deleted.
websocket_disconnect(c) ==
    /\ websocket_connections[c].state = "open"
    /\ websocket_connections' = [websocket_connections EXCEPT ![c] =
           [@ EXCEPT !.state = "closed", !.is_active = FALSE, !.pubsub = {},
                     !.listener_task = cancel(@)]]
    /\ active_websocket_connections' = active_websocket_connections \ {c}
    /\ UNCHANGED ws_published
    /\ UNCHANGED <<base_vars, dlq_vars, orch_vars, registry_vars, filter_vars>>

WebSocketNext ==
    \/ \E c \in ConnectionIds, channel_list \in SUBSET StreamChannels :
          websocket_endpoint(c, channel_list)
    \/ \E c \in ConnectionIds, channel_list \in SUBSET StreamChannels \ {{}} :
          _handle_subscribe(c, channel_list)
    \/ \E c \in ConnectionIds, channel_list \in SUBSET StreamChannels \ {{}} :
          _handle_unsubscribe(c, channel_list)
    \/ \E ch \in StreamChannels : ws_publish(ch, [c \in ConnectionIds |-> "ok"])
    \/ \E c \in ConnectionIds : websocket_disconnect(c)

\* Clients that subscribe and unsubscribe, without faults.
SpecWebSocket == Init /\ [][WebSocketNext]_vars

FanOutNext ==
    \/ \E c \in ConnectionIds, channel_list \in SUBSET StreamChannels :
          websocket_endpoint(c, channel_list)
    \/ \E ch \in StreamChannels, faults \in [ConnectionIds -> Faults] : ws_publish(ch, faults)
    \/ \E c \in ConnectionIds : websocket_disconnect(c)

\* Clients that keep the channels of their request, with faults.
SpecFanOut == Init /\ [][FanOutNext]_vars

\* The ids of the events the client of the connection has been sent.
sent_ids(conn) == {conn.sent[i] : i \in 1..Len(conn.sent)}

\* An event is published: the step adds its channel to ws_published.
Publishes == Len(ws_published') = Len(ws_published) + 1

\* The channel and the id of the event the step publishes.
published_channel == ws_published'[Len(ws_published')]
published_id == Len(ws_published')

\* C33: a fan-out error on one connection, a failed send or an exception in
\* its handler, affects only that connection: every connection without an
\* error of its own that listens to the channel is still sent the event, and
\* it loses neither its listener nor its activity.
C33_FanOutErrorsIsolated ==
    [][Publishes =>
          \A d \in ConnectionIds :
             websocket_connections'[d].errors_count = websocket_connections[d].errors_count =>
                /\ websocket_connections'[d].listener_task =
                      websocket_connections[d].listener_task
                /\ websocket_connections'[d].is_active = websocket_connections[d].is_active
                /\ (d \in ws_listening(published_channel) /\ websocket_connections[d].is_active)
                      => published_id \in sent_ids(websocket_connections'[d])]_vars

\* One connection has had a failed send, after which its listener ended, and
\* the other connection has been sent the event of that time and the later
\* ones.
C33_Witness ==
    \E c, d \in ConnectionIds :
        /\ c # d
        /\ websocket_connections[c].errors_count > 0
        /\ ~websocket_connections[c].is_active
        /\ websocket_connections[c].listener_task = "finished"
        /\ websocket_connections[c].sent = <<>>
        /\ websocket_connections[d].listener_task = "running"
        /\ websocket_connections[d].errors_count = 0
        /\ sent_ids(websocket_connections[d]) = 1..MaxWsPublished
        /\ websocket_connections[c].subscribed_channels = StreamChannels
        /\ Len(ws_published) = MaxWsPublished

\* C38: after a WebSocket client unsubscribes from a channel and subscribes
\* to it again, each event published on the channel that passes the filter
\* is sent to the client exactly once.
C38_ResubscribedClientSentOnce ==
    [][Publishes =>
          \A d \in ConnectionIds :
             (/\ d \in ws_listening(published_channel)
              /\ websocket_connections[d].is_active
              /\ websocket_connections'[d].errors_count = websocket_connections[d].errors_count)
                => websocket_connections'[d].sent =
                      Append(websocket_connections[d].sent, published_id)]_vars

(***************************************************************************)
(* How long an event can stay in a batch.                                  *)
(***************************************************************************)

\* The events of the open batch of a type.
batch_events(ty) == {batches[ty].events[i] : i \in 1..Len(batches[ty].events)}

\* C34: with the periodic flush loop running, every event placed in an open
\* batch is emitted no later than the max-delay of the batch plus one
\* interval after it was accepted, whatever events of the type arrive later:
\* an event leaves its batch only by being emitted, and a pass of the loop
\* leaves no event in a batch that was accepted max-delay or longer ago.
C34_BatchedEventsEmittedInTime ==
    [][/\ \A ty \in AggTypes : \A e \in batch_events(ty) :
             e.id \in batched_ids' \/ e.id \in emitted_after
       /\ periodic_flush =>
             \A ty \in AggTypes : \A i \in 1..Len(batches'[ty].events) :
                agg_now - batches'[ty].events[i].timestamp < configs[ty].max_delay]_vars

(***************************************************************************)
(* How often an event reaches the output handlers.                         *)
(***************************************************************************)

\* The positions of the outputs that carry the event of the given id, as
\* itself or among the event_ids of an aggregated event.
outputs_carrying(id) ==
    {i \in 1..Len(outputs) :
        IF outputs[i].aggregated
        THEN \E j \in 1..Len(outputs[i].event_ids) : outputs[i].event_ids[j] = id
        ELSE outputs[i].id = id}

\* C35: every event passed to process_event reaches the output handlers at
\* most once, as itself or as a member of the event_ids of exactly one
\* aggregated event, under every strategy and any interleaving with the
\* periodic flush loop.
C35_EventOutputAtMostOnce ==
    \A id \in 1..fed : Cardinality(outputs_carrying(id)) <= 1

(***************************************************************************)
(* Draining the priority queue.                                            *)
(***************************************************************************)

\* C36: after a drain of the priority queue by the periodic loop, no event
\* whose timestamp is older than the one-second cutoff remains in the queue.
C36_DrainLeavesNoOldEvent ==
    [][periodic_flush =>
          \A i \in 1..Len(priority_queue') :
             ~(priority_queue'[i].timestamp < agg_now - 1)]_vars

\* The events a drain of the priority queue outputs, in the order in which
\* they are output.
drained == SubSeq(priority_queue, 1, popped_count)

\* C37: when the priority queue is drained, events of higher priority come
\* out before events of lower priority, and among events of equal priority
\* older events come out first.
C37_DrainOrderedByPriorityThenAge ==
    [][periodic_flush =>
          /\ \A i \in 1..popped_count :
                outputs'[Len(outputs') - popped_count + i].id = drained[i].id
          /\ \A i, j \in 1..popped_count :
                i < j =>
                   \/ drained[i].priority > drained[j].priority
                   \/ /\ drained[i].priority = drained[j].priority
                      /\ drained[i].timestamp <= drained[j].timestamp]_vars

(***************************************************************************)
(* The dead letter queue when the broker refuses tasks.                    *)
(***************************************************************************)

DlqFaultNext ==
    \/ \E error \in ErrorMessages, retry_count \in RetryCounts : add_to_dlq(error, retry_count)
    \/ \E apply_async_raises \in SUBSET (1..MaxDlqEntries) : process_dlq_sweep(apply_async_raises)
    \/ dlq_tick

SpecDlqFault == Init /\ [][DlqFaultNext]_vars

\* C39: every entry a sweep removes from the dead letter queue has been
\* re-enqueued or recorded as permanently failed, so that an entry whose
\* re-enqueueing fails is still in the dead letter queue afterwards.
C39_RemovedEntriesRequeuedOrRecorded ==
    [][\A e \in dlq_entries \ dlq_entries' :
          \/ \E m \in requeued' \ requeued : m.task_id = e.task_id
          \/ \E f \in permanent_failures' :
                f.task_id = e.task_id /\ f.status = "permanently_failed"]_vars

(***************************************************************************)
(* The worker's event publisher when the Redis client raises.              *)
(***************************************************************************)

\* Priorities of the events: the default and the one sent at once.
PublishPriorities == {DefaultEventPriority, ImmediatePriority}

\* EventPublisher.publish_event
EventPublisher_publish_event(ty, priority, force_immediate, redis_raises) ==
    /\ produced < MaxProduced
    /\ add_event(ty, priority, force_immediate, redis_raises)
    /\ UNCHANGED <<batch_now, task_over>>
    /\ UNCHANGED <<worker_vars, control_vars, agent_vars, bus_vars, stream_vars, aggregator_vars, dlq_vars, orch_vars, registry_vars, filter_vars, ws_vars>>

PublisherFaultNext ==
    \/ \E ty \in TaskEventTypes, priority \in PublishPriorities,
          force_immediate \in BOOLEAN, redis_raises \in BOOLEAN :
          EventPublisher_publish_event(ty, priority, force_immediate, redis_raises)
    \/ \E redis_raises \in BOOLEAN : _flush_loop_pass(redis_raises)
    \/ batcher_tick

SpecPublisherFault == Init /\ [][PublisherFaultNext]_vars

\* C40: publish_event returns True only if the event was published: whenever
\* the Redis publish of an event fails, at once or later in a batch flush,
\* the caller of publish_event for that event did not receive True.
C40_TrueOnlyIfPublished ==
    \A id \in publish_failed : id \notin returned_true

====
